---- MODULE Spec2Model ----
(***************************************************************************)
(* The free-text response parser of VetAI-Analyzer.                        *)
(*                                                                         *)
(* A JavaScript string is modelled as a sequence of characters; a          *)
(* character is a one-character TLA+ string, except U+2022 (the bullet),   *)
(* which is written "U+2022".  Every regular expression of the source is   *)
(* translated to an operator that computes the match the JavaScript        *)
(* engine finds (leftmost, greedy / lazy quantifiers with backtracking).   *)
(***************************************************************************)
EXTENDS Integers, Sequences, FiniteSets, TLC

VARIABLES
  flow,                \* "analyze" | "server" | "diagnosis" | "form": the handler
  request,             \* the fields of the request (the form data)
  pc,                  \* "start" | "rejected" | "calling" | "received" | "failed" |
                       \* "analyzed" | "diagnosed" | "parsed"
  calls,               \* the number of generateContent calls issued for the request
  parses,              \* the number of times the handler ran its parser functions
  aiResponse,          \* the text returned by the generative API
  aiAnalysis,          \* generic flow: the aiAnalysis field of the analysis
  possibleConditions,  \* generic flow: list of conditions
  recommendations,     \* generic flow: text
  diagnosticTests,     \* generic flow: text
  longTermManagement,  \* generic flow: text
  result,              \* clinical flow: the AnalysisResult record
  response,            \* the response sent (form: showResult and the error shown)
  frame,               \* inside a parser: its local variables (lines, the loop
                       \* indices i, j, k (1-based), the section flag, the description
                       \* that the look-ahead loop builds)
  finder,              \* the clinic finder: the state of the map component (the
                       \* queries sent, the response in hand, the clinic list, the
                       \* error shown)
  home,                \* the Home page: one handleAnalyzeSubmit call and its retries
  app,                 \* the diagnosis form of App: the submission in progress
  store,               \* the diagnosis controller: the stored records, the request
                       \* in hand and the response sent
  worker               \* the service worker: the caches and the answer to a fetch

vars == <<flow, request, pc, calls, parses, aiResponse, aiAnalysis, possibleConditions,
          recommendations, diagnosticTests, longTermManagement, result, response, frame,
          finder, home, app, store, worker>>

(***************************************************************************)
(* Characters and character classes of the regular expressions.            *)
(***************************************************************************)
UpperChars == <<"A","B","C","D","E","F","G","H","I","J","K","L","M",
                "N","O","P","Q","R","S","T","U","V","W","X","Y","Z">>
LowerChars == <<"a","b","c","d","e","f","g","h","i","j","k","l","m",
                "n","o","p","q","r","s","t","u","v","w","x","y","z">>
Upper == {UpperChars[i] : i \in DOMAIN UpperChars}
Lower == {LowerChars[i] : i \in DOMAIN LowerChars}
Digit == {"0","1","2","3","4","5","6","7","8","9"}
\* \s
Space == {" ", "\t", "\n", "\r"}
\* \w
WordChar == Upper \cup Lower \cup Digit \cup {"_"}
\* [*•-]
BulletChar == {"*", "U+2022", "-"}
\* [A-Z] under the i flag
Letter == Upper \cup Lower

lowerOf == [c \in Upper |-> LowerChars[CHOOSE i \in DOMAIN UpperChars : UpperChars[i] = c]]

\* String.prototype.toLowerCase
toLowerCase(s) == [i \in 1..Len(s) |-> IF s[i] \in Upper THEN lowerOf[s[i]] ELSE s[i]]

\* s has p at index i (1-based)
hasAt(s, p, i) ==
  /\ i >= 1
  /\ i + Len(p) - 1 <= Len(s)
  /\ \A k \in 1..Len(p) : s[i + k - 1] = p[k]

\* String.prototype.includes
includes(s, p) == \E i \in 1..(Len(s) - Len(p) + 1) : hasAt(s, p, i)

\* String.prototype.indexOf, 1-based; 0 when absent (JavaScript: -1)
indexOf(s, p) ==
  IF includes(s, p)
  THEN CHOOSE i \in 1..(Len(s) - Len(p) + 1) :
         hasAt(s, p, i) /\ \A j \in 1..(i - 1) : ~hasAt(s, p, j)
  ELSE 0

\* String.prototype.startsWith
startsWith(s, p) == hasAt(s, p, 1)

\* the first index j >= i with s[j] outside the class C, Len(s)+1 when none:
\* where a greedy C* that starts at i stops
runEnd(s, i, C) ==
  CHOOSE j \in i..(Len(s) + 1) :
    /\ (j = Len(s) + 1 \/ s[j] \notin C)
    /\ \A k \in i..(j - 1) : s[k] \in C

\* String.prototype.substring(from) with a 1-based index
from(s, i) == SubSeq(s, i, Len(s))

\* String.prototype.trim
trim(s) ==
  LET a == runEnd(s, 1, Space)
  IN  IF a > Len(s) THEN <<>>
      ELSE LET b == CHOOSE j \in a..Len(s) :
                      s[j] \notin Space /\ \A k \in (j + 1)..Len(s) : s[k] \in Space
           IN  SubSeq(s, a, b)

\* the first index j >= i with s[j] in the class C, Len(s)+1 when none
findIn(s, i, C) ==
  CHOOSE j \in i..(Len(s) + 1) :
    /\ (j = Len(s) + 1 \/ s[j] \in C)
    /\ \A k \in i..(j - 1) : s[k] \notin C

\* String.prototype.split('\n')
RECURSIVE split(_)
split(s) ==
  LET j == findIn(s, 1, {"\n"})
  IN  IF j > Len(s) THEN <<s>>
      ELSE <<SubSeq(s, 1, j - 1)>> \o split(from(s, j + 1))

\* Array.prototype.join('\n')
RECURSIVE join(_)
join(a) ==
  IF a = <<>> THEN <<>>
  ELSE IF Len(a) = 1 THEN a[1]
  ELSE a[1] \o <<"\n">> \o join(Tail(a))

(***************************************************************************)
(* The string literals of the source, as character sequences.              *)
(***************************************************************************)
\* 'possible conditions'
strPossibleConditions ==
  <<"p","o","s","s","i","b","l","e"," ","c","o","n","d","i","t","i","o","n","s">>

\* 'potential diagnoses'
strPotentialDiagnoses ==
  <<"p","o","t","e","n","t","i","a","l"," ","d","i","a","g","n","o","s","e","s">>

\* 'possible diagnoses'
strPossibleDiagnoses ==
  <<"p","o","s","s","i","b","l","e"," ","d","i","a","g","n","o","s","e","s">>

\* 'description of each condition'
strDescriptionOfEachCondition ==
  <<"d","e","s","c","r","i","p","t","i","o","n"," ","o","f"," ","e","a","c","h"," ","c","o","n",
    "d","i","t","i","o","n">>

\* 'recommendations'
strRecommendations ==
  <<"r","e","c","o","m","m","e","n","d","a","t","i","o","n","s">>

\* 'advice'
strAdvice ==
  <<"a","d","v","i","c","e">>

\* 'Condition'
strCondition ==
  <<"C","o","n","d","i","t","i","o","n">>

\* '---'
strDashes ==
  <<"-","-","-">>

\* 'probability'
strProbability ==
  <<"p","r","o","b","a","b","i","l","i","t","y">>

\* 'description'
strDescription ==
  <<"d","e","s","c","r","i","p","t","i","o","n">>

\* 'high'
strHighLower ==
  <<"h","i","g","h">>

\* 'medium'
strMediumLower ==
  <<"m","e","d","i","u","m">>

\* 'low'
strLowLower ==
  <<"l","o","w">>

\* 'High'
strHigh ==
  <<"H","i","g","h">>

\* 'Medium'
strMedium ==
  <<"M","e","d","i","u","m">>

\* 'Low'
strLow ==
  <<"L","o","w">>

\* 'No detailed description available'
strNoDetailedDescription ==
  <<"N","o"," ","d","e","t","a","i","l","e","d"," ","d","e","s","c","r","i","p","t","i","o","n",
    " ","a","v","a","i","l","a","b","l","e">>

\* 'Unspecified Condition'
strUnspecifiedCondition ==
  <<"U","n","s","p","e","c","i","f","i","e","d"," ","C","o","n","d","i","t","i","o","n">>

\* 'The AI response did not contain clearly formatted conditions. Please consult with a veterinarian for a proper diagnosis.'
strUnspecifiedDescription ==
  <<"T","h","e"," ","A","I"," ","r","e","s","p","o","n","s","e"," ","d","i","d"," ","n","o","t",
    " ","c","o","n","t","a","i","n"," ","c","l","e","a","r","l","y"," ","f","o","r","m","a","t",
    "t","e","d"," ","c","o","n","d","i","t","i","o","n","s","."," ","P","l","e","a","s","e"," ",
    "c","o","n","s","u","l","t"," ","w","i","t","h"," ","a"," ","v","e","t","e","r","i","n","a",
    "r","i","a","n"," ","f","o","r"," ","a"," ","p","r","o","p","e","r"," ","d","i","a","g","n",
    "o","s","i","s",".">>

\* 'advice for pet owner'
strAdviceForPetOwner ==
  <<"a","d","v","i","c","e"," ","f","o","r"," ","p","e","t"," ","o","w","n","e","r">>

\* 'advice to pet owner'
strAdviceToPetOwner ==
  <<"a","d","v","i","c","e"," ","t","o"," ","p","e","t"," ","o","w","n","e","r">>

\* 'recommendation'
strRecommendation ==
  <<"r","e","c","o","m","m","e","n","d","a","t","i","o","n">>

\* 'consult'
strConsult ==
  <<"c","o","n","s","u","l","t">>

\* 'veterinarian'
strVeterinarian ==
  <<"v","e","t","e","r","i","n","a","r","i","a","n">>

\* '\n\n**Important Note:** This analysis is provided as guidance only. Please consult with a licensed veterinarian for proper diagnosis and treatment.'
strImportantNote ==
  <<"\n","\n","*","*","I","m","p","o","r","t","a","n","t"," ","N","o","t","e",":","*","*"," ",
    "T","h","i","s"," ","a","n","a","l","y","s","i","s"," ","i","s"," ","p","r","o","v","i","d",
    "e","d"," ","a","s"," ","g","u","i","d","a","n","c","e"," ","o","n","l","y","."," ","P","l",
    "e","a","s","e"," ","c","o","n","s","u","l","t"," ","w","i","t","h"," ","a"," ","l","i","c",
    "e","n","s","e","d"," ","v","e","t","e","r","i","n","a","r","i","a","n"," ","f","o","r"," ",
    "p","r","o","p","e","r"," ","d","i","a","g","n","o","s","i","s"," ","a","n","d"," ","t","r",
    "e","a","t","m","e","n","t",".">>

\* 'No specific recommendations provided. Please consult with a veterinarian for proper guidance based on your pet's symptoms.'
strNoRecommendations ==
  <<"N","o"," ","s","p","e","c","i","f","i","c"," ","r","e","c","o","m","m","e","n","d","a","t",
    "i","o","n","s"," ","p","r","o","v","i","d","e","d","."," ","P","l","e","a","s","e"," ","c",
    "o","n","s","u","l","t"," ","w","i","t","h"," ","a"," ","v","e","t","e","r","i","n","a","r",
    "i","a","n"," ","f","o","r"," ","p","r","o","p","e","r"," ","g","u","i","d","a","n","c","e",
    " ","b","a","s","e","d"," ","o","n"," ","y","o","u","r"," ","p","e","t","'","s"," ","s","y",
    "m","p","t","o","m","s",".">>

\* 'diagnostic tests'
strDiagnosticTests ==
  <<"d","i","a","g","n","o","s","t","i","c"," ","t","e","s","t","s">>

\* 'potential tests'
strPotentialTests ==
  <<"p","o","t","e","n","t","i","a","l"," ","t","e","s","t","s">>

\* 'recommended tests'
strRecommendedTests ==
  <<"r","e","c","o","m","m","e","n","d","e","d"," ","t","e","s","t","s">>

\* 'test'
strTest ==
  <<"t","e","s","t">>

\* 'diagnos'
strDiagnos ==
  <<"d","i","a","g","n","o","s">>

\* 'No specific diagnostic tests provided. A veterinarian would determine appropriate tests based on physical examination.'
strNoDiagnosticTests ==
  <<"N","o"," ","s","p","e","c","i","f","i","c"," ","d","i","a","g","n","o","s","t","i","c"," ",
    "t","e","s","t","s"," ","p","r","o","v","i","d","e","d","."," ","A"," ","v","e","t","e","r",
    "i","n","a","r","i","a","n"," ","w","o","u","l","d"," ","d","e","t","e","r","m","i","n","e",
    " ","a","p","p","r","o","p","r","i","a","t","e"," ","t","e","s","t","s"," ","b","a","s","e",
    "d"," ","o","n"," ","p","h","y","s","i","c","a","l"," ","e","x","a","m","i","n","a","t","i",
    "o","n",".">>

\* 'long-term management'
strLongTermManagementHyphen ==
  <<"l","o","n","g","-","t","e","r","m"," ","m","a","n","a","g","e","m","e","n","t">>

\* 'long term management'
strLongTermManagementSpace ==
  <<"l","o","n","g"," ","t","e","r","m"," ","m","a","n","a","g","e","m","e","n","t">>

\* 'ongoing care'
strOngoingCare ==
  <<"o","n","g","o","i","n","g"," ","c","a","r","e">>

\* 'management considerations'
strManagementConsiderations ==
  <<"m","a","n","a","g","e","m","e","n","t"," ","c","o","n","s","i","d","e","r","a","t","i","o",
    "n","s">>

\* 'management'
strManagement ==
  <<"m","a","n","a","g","e","m","e","n","t">>

\* 'care'
strCare ==
  <<"c","a","r","e">>

\* 'long-term'
strLongTerm ==
  <<"l","o","n","g","-","t","e","r","m">>

\* 'long'
strLong ==
  <<"l","o","n","g">>

\* 'term management'
strTermManagement ==
  <<"t","e","r","m"," ","m","a","n","a","g","e","m","e","n","t">>

\* 'No specific long-term management information provided. A veterinarian would develop an appropriate long-term care plan based on diagnosis.'
strNoLongTermManagement ==
  <<"N","o"," ","s","p","e","c","i","f","i","c"," ","l","o","n","g","-","t","e","r","m"," ","m",
    "a","n","a","g","e","m","e","n","t"," ","i","n","f","o","r","m","a","t","i","o","n"," ","p",
    "r","o","v","i","d","e","d","."," ","A"," ","v","e","t","e","r","i","n","a","r","i","a","n",
    " ","w","o","u","l","d"," ","d","e","v","e","l","o","p"," ","a","n"," ","a","p","p","r","o",
    "p","r","i","a","t","e"," ","l","o","n","g","-","t","e","r","m"," ","c","a","r","e"," ","p",
    "l","a","n"," ","b","a","s","e","d"," ","o","n"," ","d","i","a","g","n","o","s","i","s",
    ".">>

\* 'No specific recommendations provided'
strNoRecommendationsShort ==
  <<"N","o"," ","s","p","e","c","i","f","i","c"," ","r","e","c","o","m","m","e","n","d","a","t",
    "i","o","n","s"," ","p","r","o","v","i","d","e","d">>

\* 'possible conditions:'
strPossibleConditionsHeading ==
  <<"p","o","s","s","i","b","l","e"," ","c","o","n","d","i","t","i","o","n","s",":">>

\* 'clinical assessment:'
strClinicalAssessmentHeading ==
  <<"c","l","i","n","i","c","a","l"," ","a","s","s","e","s","s","m","e","n","t",":">>

\* 'recommended diagnostics:'
strRecommendedDiagnosticsHeading ==
  <<"r","e","c","o","m","m","e","n","d","e","d"," ","d","i","a","g","n","o","s","t","i","c","s",
    ":">>

\* 'home care recommendations:'
strHomeCareRecommendationsHeading ==
  <<"h","o","m","e"," ","c","a","r","e"," ","r","e","c","o","m","m","e","n","d","a","t","i","o",
    "n","s",":">>

\* 'veterinary care indicators:'
strVeterinaryCareIndicatorsHeading ==
  <<"v","e","t","e","r","i","n","a","r","y"," ","c","a","r","e"," ","i","n","d","i","c","a","t",
    "o","r","s",":">>

\* 'mild'
strMild ==
  <<"m","i","l","d">>

\* 'moderate'
strModerate ==
  <<"m","o","d","e","r","a","t","e">>

\* 'serious'
strSerious ==
  <<"s","e","r","i","o","u","s">>

\* 'emergency'
strEmergency ==
  <<"e","m","e","r","g","e","n","c","y">>

\* 'Not specified'
strNotSpecified ==
  <<"N","o","t"," ","s","p","e","c","i","f","i","e","d">>

(***************************************************************************)
(* Generic flow, free-text sections (api/simple-analyze.js and             *)
(* api-server.js hold the same code).                                      *)
(***************************************************************************)
\* line.match(/^#+\s+/): the length of the match, 0 when there is none
headingPrefix(line) ==
  LET h == runEnd(line, 1, {"#"})
      w == runEnd(line, h, Space)
  IN  IF h > 1 /\ w > h THEN w - 1 ELSE 0

\* a heading pushed as it is
plainHeading(line) == line

\* line.replace(/^#+\s+/, '**') + '**'
boldHeading(line) == <<"*", "*">> \o from(line, headingPrefix(line) + 1) \o <<"*", "*">>

\* line.match(/^#+\s+[A-Z]/)
isMarkdownHeading(line) ==
  /\ headingPrefix(line) > 0
  /\ headingPrefix(line) < Len(line)
  /\ line[headingPrefix(line) + 1] \in Upper

\* line.match(/^[*•-]\s+/): the length of the match, 0 when there is none
bulletPrefix(line) ==
  IF Len(line) >= 2 /\ line[1] \in BulletChar /\ line[2] \in Space
  THEN runEnd(line, 2, Space) - 1 ELSE 0

\* line.match(/^\d+\.\s+/): the length of the match, 0 when there is none
numberPrefix(line) ==
  LET d == runEnd(line, 1, Digit)
  IN  IF d > 1 /\ d + 1 <= Len(line) /\ line[d] = "." /\ line[d + 1] \in Space
      THEN runEnd(line, d + 1, Space) - 1 ELSE 0

\* the line as it is pushed to the section's buffer
formatLine(line) ==
  IF bulletPrefix(line) > 0 THEN <<"U+2022", " ">> \o from(line, bulletPrefix(line) + 1)
  ELSE IF numberPrefix(line) > 0 THEN line
  ELSE IF Len(line) > 0 /\ line[1] \in Upper THEN <<"\n">> \o line
  ELSE line

\* aiResponse.match(/<keyword>[:\s]+(([\s\S]+?)(?=\n\n|\n[A-Z#]|$))/i)[1] for a match
\* of the keyword that ends before index e; <<>> when the rest does not match there
\* (a successful match captures at least one character)
sectionTail(text, e) ==
  LET r == runEnd(text, e, Space \cup {":"})
      \* [:\s]+ is greedy and gives back one character when nothing follows it
      q == IF r <= Len(text) THEN r ELSE r - 1
      lookahead(t) ==
        \/ t = Len(text)
        \/ t + 2 <= Len(text) /\ text[t + 1] = "\n"
             /\ text[t + 2] \in ({"\n", "#"} \cup Letter)
  IN  IF r = e \/ q <= e THEN <<>>
      ELSE SubSeq(text, q,
                  CHOOSE t \in q..Len(text) :
                    lookahead(t) /\ \A u \in q..(t - 1) : ~lookahead(u))

\* the capture of the leftmost match of /<keyword>[:\s]+(...)/i; <<>> when none
\* matchEnds: the indices just after an occurrence of the keyword
firstSectionTail(text, matchEnds) ==
  LET ok == {e \in matchEnds : sectionTail(text, e) # <<>>}
  IN  IF ok = {} THEN <<>>
      ELSE sectionTail(text, CHOOSE e \in ok : \A f \in ok : e <= f)

\* the indices just after the occurrences of p in the lower-cased text
endsOf(text, p) ==
  LET low == toLowerCase(text)
  IN  {i + Len(p) : i \in {j \in 1..(Len(text) - Len(p) + 1) : hasAt(low, p, j)}}

RECURSIVE recommendationsLoop(_, _, _, _)
recommendationsLoop(lines, i, inRecommendationsSection, acc) ==
  IF i > Len(lines) THEN acc
  ELSE
    LET line == trim(lines[i])
        low  == toLowerCase(line)
    IN  IF \/ includes(low, strRecommendations)
           \/ includes(low, strAdviceForPetOwner)
           \/ includes(low, strAdviceToPetOwner)
        THEN recommendationsLoop(lines, i + 1, TRUE,
               IF headingPrefix(line) > 0 THEN Append(acc, boldHeading(line)) ELSE acc)
        ELSE IF /\ inRecommendationsSection /\ line # <<>>
                /\ isMarkdownHeading(line)
                /\ ~includes(low, strRecommendation)
        THEN acc
        ELSE IF inRecommendationsSection /\ line # <<>>
        THEN recommendationsLoop(lines, i + 1, inRecommendationsSection,
                                 Append(acc, formatLine(line)))
        ELSE recommendationsLoop(lines, i + 1, inRecommendationsSection, acc)

extractRecommendations(text) ==
  LET found == recommendationsLoop(split(text), 1, FALSE, <<>>)
      formatted == join(found)
      tail == firstSectionTail(text, endsOf(text, strRecommendations))
  IN  IF Len(found) > 0
      THEN IF /\ ~includes(toLowerCase(formatted), strConsult)
              /\ ~includes(toLowerCase(formatted), strVeterinarian)
           THEN formatted \o strImportantNote
           ELSE formatted
      ELSE IF tail # <<>> THEN trim(tail)
      ELSE strNoRecommendations

RECURSIVE diagnosticTestsLoop(_, _, _, _)
diagnosticTestsLoop(lines, i, inDiagnosticTestsSection, acc) ==
  IF i > Len(lines) THEN acc
  ELSE
    LET line == trim(lines[i])
        low  == toLowerCase(line)
    IN  IF \/ includes(low, strDiagnosticTests)
           \/ includes(low, strPotentialTests)
           \/ includes(low, strRecommendedTests)
        THEN diagnosticTestsLoop(lines, i + 1, TRUE,
               IF headingPrefix(line) > 0 THEN Append(acc, boldHeading(line)) ELSE acc)
        ELSE IF /\ inDiagnosticTestsSection /\ line # <<>>
                /\ isMarkdownHeading(line)
                /\ ~includes(low, strTest)
                /\ ~includes(low, strDiagnos)
        THEN acc
        ELSE IF inDiagnosticTestsSection /\ line # <<>>
        THEN diagnosticTestsLoop(lines, i + 1, inDiagnosticTestsSection,
                                 Append(acc, formatLine(line)))
        ELSE diagnosticTestsLoop(lines, i + 1, inDiagnosticTestsSection, acc)

extractDiagnosticTests(text) ==
  LET found == diagnosticTestsLoop(split(text), 1, FALSE, <<>>)
      tail == firstSectionTail(text, endsOf(text, strDiagnosticTests))
  IN  IF Len(found) > 0 THEN join(found)
      ELSE IF tail # <<>> THEN trim(tail)
      ELSE strNoDiagnosticTests

RECURSIVE longTermLoop(_, _, _, _)
longTermLoop(lines, i, inLongTermSection, acc) ==
  IF i > Len(lines) THEN acc
  ELSE
    LET line == trim(lines[i])
        low  == toLowerCase(line)
    IN  IF \/ includes(low, strLongTermManagementHyphen)
           \/ includes(low, strLongTermManagementSpace)
           \/ includes(low, strOngoingCare)
           \/ includes(low, strManagementConsiderations)
        THEN longTermLoop(lines, i + 1, TRUE,
               IF headingPrefix(line) > 0 THEN Append(acc, boldHeading(line)) ELSE acc)
        ELSE IF /\ inLongTermSection /\ line # <<>>
                /\ isMarkdownHeading(line)
                /\ ~includes(low, strManagement)
                /\ ~includes(low, strCare)
                /\ ~includes(low, strLongTerm)
        THEN acc
        ELSE IF inLongTermSection /\ line # <<>>
        THEN longTermLoop(lines, i + 1, inLongTermSection, Append(acc, formatLine(line)))
        ELSE longTermLoop(lines, i + 1, inLongTermSection, acc)

\* the indices just after the matches of /long.term management/i ('.': any character
\* but a line terminator)
endsOfLongTermManagement(text) ==
  LET low == toLowerCase(text)
      n   == Len(strLong) + 1 + Len(strTermManagement)
  IN  {i + n : i \in {j \in 1..(Len(text) - n + 1) :
                        /\ hasAt(low, strLong, j)
                        /\ low[j + Len(strLong)] \notin {"\n", "\r"}
                        /\ hasAt(low, strTermManagement, j + Len(strLong) + 1)}}

extractLongTermManagement(text) ==
  LET found == longTermLoop(split(text), 1, FALSE, <<>>)
      tail == firstSectionTail(text, endsOfLongTermManagement(text))
  IN  IF Len(found) > 0 THEN join(found)
      ELSE IF tail # <<>> THEN trim(tail)
      ELSE strNoLongTermManagement

(***************************************************************************)
(* Generic flow, /api/diagnosis controller: extractRecommendations pushes  *)
(* the lines as they are and has a shorter fallback sentence.              *)
(***************************************************************************)
RECURSIVE diagnosisRecommendationsLoop(_, _, _, _)
diagnosisRecommendationsLoop(lines, i, inRecommendationsSection, acc) ==
  IF i > Len(lines) THEN acc
  ELSE
    LET line == trim(lines[i])
        low  == toLowerCase(line)
    IN  IF \/ includes(low, strRecommendations)
           \/ includes(low, strAdviceForPetOwner)
           \/ includes(low, strAdviceToPetOwner)
        THEN diagnosisRecommendationsLoop(lines, i + 1, TRUE, acc)
        ELSE IF /\ inRecommendationsSection /\ line # <<>>
                /\ isMarkdownHeading(line)
                /\ ~includes(low, strRecommendation)
        THEN acc
        ELSE IF inRecommendationsSection /\ line # <<>>
        THEN diagnosisRecommendationsLoop(lines, i + 1, inRecommendationsSection,
                                          Append(acc, line))
        ELSE diagnosisRecommendationsLoop(lines, i + 1, inRecommendationsSection, acc)

diagnosisExtractRecommendations(text) ==
  LET found == diagnosisRecommendationsLoop(split(text), 1, FALSE, <<>>)
      tail == firstSectionTail(text, endsOf(text, strRecommendations))
  IN  IF Len(found) > 0 THEN join(found)
      ELSE IF tail # <<>> THEN trim(tail)
      ELSE strNoRecommendationsShort

(***************************************************************************)
(* Generic flow, extractConditions: the per-line extraction rules.  A      *)
(* match is a record [ok, name, tag]: the two capture groups, untrimmed.   *)
(***************************************************************************)
noMatch == [ok |-> FALSE, name |-> <<>>, tag |-> <<>>]

\* line.match(/\|\s*\*?\*?([^|]+)\*?\*?\s*\|\s*(\w+)\s*\|/)
tableMatch(line) ==
  LET \* the match that starts at the '|' at index i
      close(i) == findIn(line, i + 1, {"|"})
      tagFrom(i) == runEnd(line, close(i) + 1, Space)
      tagTo(i) == runEnd(line, tagFrom(i), WordChar)
      matchesAt(i) ==
        /\ line[i] = "|"
        /\ close(i) <= Len(line)
        /\ close(i) > i + 1
        /\ tagTo(i) > tagFrom(i)
        /\ runEnd(line, tagTo(i), Space) <= Len(line)
        /\ line[runEnd(line, tagTo(i), Space)] = "|"
      starts == {i \in 1..Len(line) : matchesAt(i)}
  IN  IF starts = {} THEN noMatch
      ELSE
        LET i == CHOOSE x \in starts : \A y \in starts : x <= y
            j == close(i)
            \* \s*\*?\*? is greedy and gives characters back so that ([^|]+) gets one
            w == runEnd(line, i + 1, Space)
            s1 == IF w < j /\ line[w] = "*" THEN w + 1 ELSE w
            s2 == IF s1 < j /\ line[s1] = "*" THEN s1 + 1 ELSE s1
            g == IF s2 < j THEN s2 ELSE j - 1
        IN  [ok |-> TRUE, name |-> SubSeq(line, g, j - 1),
             tag |-> SubSeq(line, tagFrom(i), tagTo(i) - 1)]

\* line.match(/([^-:]+)[-:]\s*(\w+)\s*probability/i)
standardMatch(line) ==
  LET low == toLowerCase(line)
      tagFrom(d) == runEnd(line, d + 1, Space)
      tagTo(d) == runEnd(line, tagFrom(d), WordChar)
      \* (\w+) ends before index k and \s*probability follows
      tagEnds(d) ==
        {k \in (tagFrom(d) + 1)..tagTo(d) :
           IF k = tagTo(d) THEN hasAt(low, strProbability, runEnd(line, k, Space))
           ELSE hasAt(low, strProbability, k)}
      matchesAt(d) ==
        /\ line[d] \in {"-", ":"}
        /\ d > 1
        /\ line[d - 1] \notin {"-", ":"}
        /\ tagEnds(d) # {}
      delims == {d \in 1..Len(line) : matchesAt(d)}
  IN  IF delims = {} THEN noMatch
      ELSE
        LET d == CHOOSE x \in delims : \A y \in delims : x <= y
            before == {i \in 1..(d - 1) : line[i] \in {"-", ":"}}
            g == IF before = {} THEN 1
                 ELSE 1 + CHOOSE x \in before : \A y \in before : y <= x
            k == CHOOSE x \in tagEnds(d) : \A y \in tagEnds(d) : y <= x
        IN  [ok |-> TRUE, name |-> SubSeq(line, g, d - 1),
             tag |-> SubSeq(line, tagFrom(d), k - 1)]

\* the rest of bulletMatch and numberedMatch: \s+(.+?)\s*\((\w+)\) from index p
parenTagMatch(line, p) ==
  LET W == runEnd(line, p, Space) - p
      open(q) == runEnd(line, q, Space)
      tagTo(q) == runEnd(line, open(q) + 1, WordChar)
      \* \s*\((\w+)\) matches at index q
      tagAt(q) ==
        /\ open(q) <= Len(line)
        /\ line[open(q)] = "("
        /\ tagTo(q) > open(q) + 1
        /\ tagTo(q) <= Len(line)
        /\ line[tagTo(q)] = ")"
      \* with \s+ taking w characters, (.+?) may end before these indices
      ends(w) == {q \in (p + w + 1)..Len(line) : tagAt(q)}
      widths == {w \in 1..W : ends(w) # {}}
  IN  IF widths = {} THEN noMatch
      ELSE
        \* \s+ is greedy, (.+?) is lazy
        LET w == CHOOSE x \in widths : \A y \in widths : y <= x
            q == CHOOSE x \in ends(w) : \A y \in ends(w) : x <= y
        IN  [ok |-> TRUE, name |-> SubSeq(line, p + w, q - 1),
             tag |-> SubSeq(line, open(q) + 1, tagTo(q) - 1)]

\* line.match(/^[*•-]\s+(.+?)\s*\((\w+)\)/)
bulletMatch(line) ==
  IF Len(line) >= 1 /\ line[1] \in BulletChar THEN parenTagMatch(line, 2) ELSE noMatch

\* line.match(/^\d+\.\s+(.+?)\s*\((\w+)\)/)
numberedMatch(line) ==
  LET d == runEnd(line, 1, Digit)
  IN  IF d > 1 /\ d <= Len(line) /\ line[d] = "." THEN parenTagMatch(line, d + 1)
      ELSE noMatch

\* a variant of removeStars that leaves the emphasis markers in the name
keepStars(s) == s

\* str.replace(/\*/g, '')
RECURSIVE removeStars(_)
removeStars(s) ==
  IF s = <<>> THEN <<>>
  ELSE IF Head(s) = "*" THEN removeStars(Tail(s))
  ELSE <<Head(s)>> \o removeStars(Tail(s))

\* a condition as it is pushed by the first pass; line is the index of the line it
\* was extracted from (a history field, not part of the JavaScript object)
newCondition(name, tag, i) ==
  [condition |-> name, probability |-> tag, description |-> <<>>, line |-> i]

\* the skip of table headers and separators
isTableHeader(line) ==
  includes(line, <<"|">>) /\ (includes(line, strCondition) \/ includes(line, strDashes))

\* the line contains a conditions heading
isConditionsHeading(line) ==
  LET low == toLowerCase(line)
  IN  \/ includes(low, strPossibleConditions)
      \/ includes(low, strPotentialDiagnoses)
      \/ includes(low, strPossibleDiagnoses)

\* the line ends the conditions section
isConditionsEnd(line) ==
  LET low == toLowerCase(line)
  IN  \/ includes(low, strDescriptionOfEachCondition)
      \/ includes(low, strRecommendations)
      \/ includes(low, strAdvice)

\* the conditions the rules extract from one line of the section (at most one)
lineConditions(line, i) ==
  IF isTableHeader(line) THEN <<>>
  ELSE IF tableMatch(line).ok
  THEN <<newCondition(trim(removeStars(tableMatch(line).name)),
                      trim(tableMatch(line).tag), i)>>
  ELSE IF standardMatch(line).ok
  THEN <<newCondition(trim(standardMatch(line).name), trim(standardMatch(line).tag), i)>>
  ELSE IF bulletMatch(line).ok
  THEN <<newCondition(trim(bulletMatch(line).name), trim(bulletMatch(line).tag), i)>>
  ELSE IF numberedMatch(line).ok
  THEN <<newCondition(trim(numberedMatch(line).name), trim(numberedMatch(line).tag), i)>>
  ELSE <<>>

\* a first pass that goes on after the end of the section
RECURSIVE firstPassWithoutBreak(_, _, _, _)
firstPassWithoutBreak(lines, i, inConditionsSection, conditions) ==
  IF i > Len(lines) THEN conditions
  ELSE
    LET line == lines[i]
    IN  IF isConditionsHeading(line)
        THEN firstPassWithoutBreak(lines, i + 1, TRUE, conditions)
        ELSE IF inConditionsSection /\ isConditionsEnd(line)
        THEN firstPassWithoutBreak(lines, i + 1, FALSE, conditions)
        ELSE IF inConditionsSection /\ trim(line) # <<>>
        THEN firstPassWithoutBreak(lines, i + 1, inConditionsSection,
                                   conditions \o lineConditions(line, i))
        ELSE firstPassWithoutBreak(lines, i + 1, inConditionsSection, conditions)

\* first pass: the conditions section
RECURSIVE firstPass(_, _, _, _)
firstPass(lines, i, inConditionsSection, conditions) ==
  IF i > Len(lines) THEN conditions
  ELSE
    LET line == lines[i]
    IN  IF isConditionsHeading(line)
        THEN firstPass(lines, i + 1, TRUE, conditions)
        ELSE IF inConditionsSection /\ isConditionsEnd(line)
        THEN conditions
        ELSE IF inConditionsSection /\ trim(line) # <<>>
        THEN firstPass(lines, i + 1, inConditionsSection,
                       conditions \o lineConditions(line, i))
        ELSE firstPass(lines, i + 1, inConditionsSection, conditions)

\* line.replace(/^[*•-]\s*\*?\*?/, '')
stripBullet(line) ==
  IF Len(line) >= 1 /\ line[1] \in BulletChar
  THEN LET w == runEnd(line, 2, Space)
           s1 == IF w <= Len(line) /\ line[w] = "*" THEN w + 1 ELSE w
           s2 == IF s1 <= Len(line) /\ line[s1] = "*" THEN s1 + 1 ELSE s1
       IN  from(line, s2)
  ELSE line

\* lines[k].match(/^[*•-]\s*\*?\*?[A-Z]/): the start of a new condition
startsNewCondition(line) ==
  /\ Len(line) >= 1
  /\ line[1] \in BulletChar
  /\ stripBullet(line) # <<>>
  /\ stripBullet(line)[1] \in Upper

\* the line names the condition: at its start, or in emphasis markers
namesCondition(line, conditionName) ==
  \/ startsWith(toLowerCase(stripBullet(line)), toLowerCase(conditionName))
  \/ includes(line, <<"*", "*">> \o conditionName \o <<"*", "*">>)
  \/ includes(line, <<"*">> \o conditionName \o <<"*">>)

\* the look-ahead loop: the description with the following lines appended
RECURSIVE lookAhead(_, _, _)
lookAhead(lines, k, description) ==
  IF /\ k <= Len(lines)
     /\ trim(lines[k]) # <<>>
     /\ ~startsNewCondition(lines[k])
     /\ ~includes(toLowerCase(lines[k]), strRecommendations)
  THEN lookAhead(lines, k + 1, description \o <<" ">> \o trim(lines[k]))
  ELSE description

\* the description that line i of the descriptions section gives a condition
describe(lines, i) ==
  LET line == lines[i]
      colonIndex == indexOf(line, <<":">>)
      onLine == IF colonIndex # 0 THEN trim(from(line, colonIndex + 1)) ELSE <<>>
  IN  trim(lookAhead(lines, i + 1, onLine))

\* the loop over the conditions for one line: the first condition the line names
\* gets the description
describeFirst(lines, i, conditions) ==
  LET named == {j \in 1..Len(conditions) : namesCondition(lines[i], conditions[j].condition)}
  IN  IF named = {} THEN conditions
      ELSE LET j == CHOOSE x \in named : \A y \in named : x <= y
           IN  [conditions EXCEPT ![j].description = describe(lines, i)]

\* second pass: the descriptions section
RECURSIVE secondPass(_, _, _, _)
secondPass(lines, i, inDescriptionsSection, conditions) ==
  IF i > Len(lines) THEN conditions
  ELSE
    LET line == lines[i]
        low  == toLowerCase(line)
    IN  IF \/ includes(low, strDescriptionOfEachCondition)
           \/ (includes(low, strDescription) /\ ~inDescriptionsSection)
        THEN secondPass(lines, i + 1, TRUE, conditions)
        ELSE IF /\ inDescriptionsSection
                /\ (includes(low, strRecommendations) \/ includes(low, strAdvice))
        THEN conditions
        ELSE IF inDescriptionsSection /\ trim(line) # <<>>
        THEN secondPass(lines, i + 1, inDescriptionsSection,
                        describeFirst(lines, i, conditions))
        ELSE secondPass(lines, i + 1, inDescriptionsSection, conditions)

extractDescriptionForCondition(conditionName, lines) ==
  LET found == {i \in 1..(Len(lines) - 1) :
                  /\ includes(lines[i], conditionName)
                  /\ ~includes(lines[i + 1], strProbability)
                  /\ trim(lines[i + 1]) # <<>>}
  IN  IF found = {} THEN strNoDetailedDescription
      ELSE trim(lines[1 + CHOOSE x \in found : \A y \in found : x <= y])

\* the fallback when the second pass filled no description
fillDescriptions(lines, conditions) ==
  IF Len(conditions) > 0 /\ \A j \in 1..Len(conditions) : conditions[j].description = <<>>
  THEN [j \in 1..Len(conditions) |->
          [conditions[j] EXCEPT
             !.description = extractDescriptionForCondition(conditions[j].condition, lines)]]
  ELSE conditions

\* line.split(word)[0]: the text before the first occurrence of word, the line when
\* there is none
beforeFirst(line, word) ==
  IF includes(line, word) THEN SubSeq(line, 1, indexOf(line, word) - 1) ELSE line

\* str.replace(/\s*[-:]\s*$/, '')
stripTrailingDelimiter(str) ==
  LET t == trim(str)
  IN  IF /\ str # <<>> /\ t # <<>> /\ t[Len(t)] \in {"-", ":"}
         /\ str[Len(str)] \in (Space \cup {"-", ":"})
      THEN LET d == CHOOSE j \in 1..Len(str) :
                      str[j] \in {"-", ":"} /\ \A k \in (j + 1)..Len(str) : str[k] \in Space
               a == CHOOSE j \in 1..d :
                      /\ \A k \in j..(d - 1) : str[k] \in Space
                      /\ (j = 1 \/ str[j - 1] \notin Space)
           IN  SubSeq(str, 1, a - 1)
      ELSE str

\* the clean-up of the condition name in the aggressive pass
cleanConditionName(condition) ==
  LET noBullet == from(condition, bulletPrefix(condition) + 1)
      noNumber == from(noBullet, numberPrefix(noBullet) + 1)
  IN  trim(stripTrailingDelimiter(noNumber))

\* the condition the aggressive pass makes of one line (at most one)
aggressiveLine(rawLine, i) ==
  LET line == trim(rawLine)
      low  == toLowerCase(line)
      probability == IF includes(low, strHighLower) THEN strHigh
                     ELSE IF includes(low, strMediumLower) THEN strMedium
                     ELSE IF includes(low, strLowLower) THEN strLow
                     ELSE <<>>
      condition == IF includes(low, strHighLower) THEN trim(beforeFirst(line, strHighLower))
                   ELSE IF includes(low, strMediumLower)
                   THEN trim(beforeFirst(line, strMediumLower))
                   ELSE IF includes(low, strLowLower) THEN trim(beforeFirst(line, strLowLower))
                   ELSE <<>>
  IN  IF probability # <<>> /\ cleanConditionName(condition) # <<>>
      THEN <<[condition |-> cleanConditionName(condition), probability |-> probability,
              description |-> strNoDetailedDescription, line |-> i]>>
      ELSE <<>>

RECURSIVE aggressivePass(_, _)
aggressivePass(lines, i) ==
  IF i > Len(lines) THEN <<>>
  ELSE aggressiveLine(lines[i], i) \o aggressivePass(lines, i + 1)

\* the condition returned when nothing was extracted; line 0: no line of the text
unspecifiedCondition ==
  [condition |-> strUnspecifiedCondition, probability |-> strMedium,
   description |-> strUnspecifiedDescription, line |-> 0]

\* the conditions after the strict rules and the description backfill
strictConditions(text) ==
  LET lines == split(text)
  IN  fillDescriptions(lines, secondPass(lines, 1, FALSE, firstPass(lines, 1, FALSE, <<>>)))

extractConditions(text) ==
  LET strict == strictConditions(text)
      aggressive == aggressivePass(split(text), 1)
  IN  IF Len(strict) > 0 THEN strict
      ELSE IF Len(aggressive) > 0 THEN aggressive
      ELSE <<unspecifiedCondition>>

(***************************************************************************)
(* Generic flow, /api/diagnosis controller: extractConditions has the      *)
(* table and the standard rule only, ends the section at 'description',    *)
(* and returns what the strict rules found.                                *)
(***************************************************************************)
diagnosisIsConditionsHeading(line) ==
  LET low == toLowerCase(line)
  IN  includes(low, strPossibleConditions) \/ includes(low, strPotentialDiagnoses)

diagnosisIsConditionsEnd(line) ==
  LET low == toLowerCase(line)
  IN  \/ includes(low, strDescription)
      \/ includes(low, strRecommendations)
      \/ includes(low, strAdvice)

diagnosisLineConditions(line, i) ==
  IF isTableHeader(line) THEN <<>>
  ELSE IF tableMatch(line).ok
  THEN <<newCondition(trim(removeStars(tableMatch(line).name)),
                      trim(tableMatch(line).tag), i)>>
  ELSE IF standardMatch(line).ok
  THEN <<newCondition(trim(standardMatch(line).name), trim(standardMatch(line).tag), i)>>
  ELSE <<>>

RECURSIVE diagnosisFirstPass(_, _, _, _)
diagnosisFirstPass(lines, i, inConditionsSection, conditions) ==
  IF i > Len(lines) THEN conditions
  ELSE
    LET line == lines[i]
    IN  IF diagnosisIsConditionsHeading(line)
        THEN diagnosisFirstPass(lines, i + 1, TRUE, conditions)
        ELSE IF inConditionsSection /\ diagnosisIsConditionsEnd(line)
        THEN conditions
        ELSE IF inConditionsSection /\ trim(line) # <<>>
        THEN diagnosisFirstPass(lines, i + 1, inConditionsSection,
                                conditions \o diagnosisLineConditions(line, i))
        ELSE diagnosisFirstPass(lines, i + 1, inConditionsSection, conditions)

diagnosisExtractConditions(text) ==
  LET lines == split(text)
  IN  fillDescriptions(lines,
        secondPass(lines, 1, FALSE, diagnosisFirstPass(lines, 1, FALSE, <<>>)))

(***************************************************************************)
(* Clinical flow: parseResponse of the symptom form.  Its regular          *)
(* expressions carry the i flag: the headings and the severity words are   *)
(* held in lower case and looked up in the lower-cased text.               *)
(***************************************************************************)
\* text.match(/<heading>([\s\S]*?)(?=<next>|$)/i)[1]; <<>> also when there is no
\* match (the caller tests `match && match[1]`, which an empty capture fails too).
\* next = <<>>: the look-ahead is (?=$)
sectionAfter(text, heading, next) ==
  LET low == toLowerCase(text)
      start == indexOf(low, heading) + Len(heading)
      stops == IF next = <<>> THEN {}
               ELSE {j \in start..(Len(text) - Len(next) + 1) : hasAt(low, next, j)}
      stop == IF stops = {} THEN Len(text) + 1
              ELSE CHOOSE x \in stops : \A y \in stops : x <= y
  IN  IF indexOf(low, heading) = 0 THEN <<>> ELSE SubSeq(text, start, stop - 1)

\* line.replace(/^\d+\.\s*|^-\s*|^•\s*/g, '').trim()
cleanLine(line) ==
  LET d == runEnd(line, 1, Digit)
  IN  IF d > 1 /\ d <= Len(line) /\ line[d] = "."
      THEN trim(from(line, runEnd(line, d + 1, Space)))
      ELSE IF Len(line) >= 1 /\ line[1] \in {"-", "U+2022"}
      THEN trim(from(line, runEnd(line, 2, Space)))
      ELSE trim(line)

\* the severity words of the regular expressions, in their order
severityWords == <<strMild, strModerate, strSerious, strEmergency>>

\* (Mild|Moderate|Serious|Emergency) at index i: the length of the match, 0 when none
severityAt(line, i) ==
  LET low == toLowerCase(line)
      hit == {w \in 1..Len(severityWords) : hasAt(low, severityWords[w], i)}
  IN  IF hit = {} THEN 0
      ELSE Len(severityWords[CHOOSE x \in hit : \A y \in hit : x <= y])

\* cleanLine.match(/(.*?)\s*\((Mild|Moderate|Serious|Emergency)\)/i)
severityMatch(line) ==
  LET open(q) == runEnd(line, q, Space)
      tagAt(q) ==
        /\ open(q) <= Len(line)
        /\ line[open(q)] = "("
        /\ severityAt(line, open(q) + 1) > 0
        /\ open(q) + severityAt(line, open(q) + 1) + 1 <= Len(line)
        /\ line[open(q) + severityAt(line, open(q) + 1) + 1] = ")"
      ends == {q \in 1..Len(line) : tagAt(q)}
  IN  IF ends = {} THEN noMatch
      ELSE LET q == CHOOSE x \in ends : \A y \in ends : x <= y
           IN  [ok |-> TRUE, name |-> SubSeq(line, 1, q - 1),
                tag |-> SubSeq(line, open(q) + 1, open(q) + severityAt(line, open(q) + 1))]

\* cleanLine.match(/(.*?)\s*[:-]\s*(Mild|Moderate|Serious|Emergency)/i)
severityColonMatch(line) ==
  LET delim(q) == runEnd(line, q, Space)
      word(q) == runEnd(line, delim(q) + 1, Space)
      tagAt(q) ==
        /\ delim(q) <= Len(line)
        /\ line[delim(q)] \in {":", "-"}
        /\ severityAt(line, word(q)) > 0
      ends == {q \in 1..Len(line) : tagAt(q)}
  IN  IF ends = {} THEN noMatch
      ELSE LET q == CHOOSE x \in ends : \A y \in ends : x <= y
           IN  [ok |-> TRUE, name |-> SubSeq(line, 1, q - 1),
                tag |-> SubSeq(line, word(q), word(q) + severityAt(line, word(q)) - 1)]

\* the condition that one line of the conditions section maps to
parseCondition(line) ==
  LET clean == cleanLine(line)
  IN  IF severityMatch(clean).ok
      THEN [name |-> trim(severityMatch(clean).name), severity |-> severityMatch(clean).tag]
      ELSE IF severityColonMatch(clean).ok
      THEN [name |-> trim(severityColonMatch(clean).name),
            severity |-> severityColonMatch(clean).tag]
      ELSE [name |-> clean, severity |-> strNotSpecified]

\* conditionsText.split('\n').filter(line => line.trim().length > 0).map(...)
RECURSIVE parseConditions(_)
parseConditions(lines) ==
  IF lines = <<>> THEN <<>>
  ELSE IF Len(trim(Head(lines))) > 0
  THEN <<parseCondition(Head(lines))>> \o parseConditions(Tail(lines))
  ELSE parseConditions(Tail(lines))

parseResponse(text) ==
  LET conditionsMatch == sectionAfter(text, strPossibleConditionsHeading,
                                      strClinicalAssessmentHeading)
      assessmentMatch == sectionAfter(text, strClinicalAssessmentHeading,
                                      strRecommendedDiagnosticsHeading)
      diagnosticsMatch == sectionAfter(text, strRecommendedDiagnosticsHeading,
                                       strHomeCareRecommendationsHeading)
      homeCareMatch == sectionAfter(text, strHomeCareRecommendationsHeading,
                                    strVeterinaryCareIndicatorsHeading)
      vetCareMatch == sectionAfter(text, strVeterinaryCareIndicatorsHeading, <<>>)
  IN  [conditions |-> IF conditionsMatch # <<>>
                      THEN parseConditions(split(trim(conditionsMatch))) ELSE <<>>,
       assessment |-> trim(assessmentMatch),
       diagnostics |-> trim(diagnosticsMatch),
       homeCare |-> trim(homeCareMatch),
       vetCareIndicators |-> trim(vetCareMatch),
       rawResponse |-> text]

\* '.' of a regular expression: any character but a line terminator
LineTerminator == {"\n", "\r"}

\* text.replace(/\*\*(.*?)\*\*/g, '$1') from index i on: the leftmost '**' that a
\* later '**' of the same line closes, and the nearest such close
RECURSIVE removeBold(_, _)
removeBold(text, i) ==
  LET closes(p) == {q \in (p + 2)..(findIn(text, p + 2, LineTerminator) - 1) :
                      hasAt(text, <<"*", "*">>, q)}
      opens == {p \in i..Len(text) : hasAt(text, <<"*", "*">>, p) /\ closes(p) # {}}
  IN  IF opens = {} THEN from(text, i)
      ELSE LET p == CHOOSE x \in opens : \A y \in opens : x <= y
               q == CHOOSE x \in closes(p) : \A y \in closes(p) : x <= y
           IN  SubSeq(text, i, p - 1) \o SubSeq(text, p + 2, q - 1) \o removeBold(text, q + 2)

\* text.replace(/\*(.*?)\*/g, '$1') from index i on
RECURSIVE removeItalic(_, _)
removeItalic(text, i) ==
  LET close(p) == findIn(text, p + 1, LineTerminator \cup {"*"})
      opens == {p \in i..Len(text) :
                  text[p] = "*" /\ close(p) <= Len(text) /\ text[close(p)] = "*"}
  IN  IF opens = {} THEN from(text, i)
      ELSE LET p == CHOOSE x \in opens : \A y \in opens : x <= y
           IN  SubSeq(text, i, p - 1) \o SubSeq(text, p + 1, close(p) - 1)
                 \o removeItalic(text, close(p) + 1)

\* text.replace(/\n\n+/g, '\n') from index i on
RECURSIVE reduceLineBreaks(_, _)
reduceLineBreaks(text, i) ==
  LET starts == {p \in i..Len(text) : hasAt(text, <<"\n", "\n">>, p)}
  IN  IF starts = {} THEN from(text, i)
      ELSE LET p == CHOOSE x \in starts : \A y \in starts : x <= y
           IN  SubSeq(text, i, p) \o reduceLineBreaks(text, runEnd(text, p, {"\n"}))

\* text.replace(/\s+\n/g, '\n') from index i on: the greedy \s+ gives back down to
\* the last line break of the run of white space
RECURSIVE removeSpacesBeforeLineBreaks(_, _)
removeSpacesBeforeLineBreaks(text, i) ==
  LET breaks(p) == {k \in (p + 1)..(runEnd(text, p, Space) - 1) : text[k] = "\n"}
      starts == {p \in i..Len(text) : text[p] \in Space /\ breaks(p) # {}}
  IN  IF starts = {} THEN from(text, i)
      ELSE LET p == CHOOSE x \in starts : \A y \in starts : x <= y
               k == CHOOSE x \in breaks(p) : \A y \in breaks(p) : x >= y
           IN  SubSeq(text, i, p - 1) \o <<"\n">> \o removeSpacesBeforeLineBreaks(text, k + 1)

\* text.replace(/\n\s+/g, '\n') from index i on
RECURSIVE removeSpacesAfterLineBreaks(_, _)
removeSpacesAfterLineBreaks(text, i) ==
  LET starts == {p \in i..(Len(text) - 1) : text[p] = "\n" /\ text[p + 1] \in Space}
  IN  IF starts = {} THEN from(text, i)
      ELSE LET p == CHOOSE x \in starts : \A y \in starts : x <= y
           IN  SubSeq(text, i, p)
                 \o removeSpacesAfterLineBreaks(text, runEnd(text, p + 1, Space))

\* the formatting of the response text before it is parsed
formattedResponse(text) ==
  LET noBold == removeBold(text, 1)
      noItalic == removeItalic(noBold, 1)
      fewBreaks == reduceLineBreaks(noItalic, 1)
      noSpaceBefore == removeSpacesBeforeLineBreaks(fewBreaks, 1)
      noSpaceAfter == removeSpacesAfterLineBreaks(noSpaceBefore, 1)
  IN  trim(noSpaceAfter)

(***************************************************************************)
(* The response texts the parsers are run on.                              *)
(***************************************************************************)
\* bounds: the number of lines drawn for each kind of text
MaxConditionLines == 2
MaxTextLines == 3
MaxClinicalLines == 2

\* the first line of a text with a conditions section: a heading, or prose
ConditionHeads ==
  { <<"P","o","s","s","i","b","l","e"," ","c","o","n","d","i","t","i","o","n","s",":">>,
      \* 'Possible conditions:'
    <<"A","n","a","l","y","s","i","s"," ","o","f"," ","t","h","e"," ","s","y","m","p","t","o","m","s">> }
      \* 'Analysis of the symptoms'

\* the lines a conditions section is drawn from
ConditionLines ==
  { <<"|"," ","O","t","i","t","i","s"," ","E","x","t","e","r","n","a"," ","|"," ","H","i","g","h"," ","|">>,
      \* '| Otitis Externa | High |'
    <<"|"," ","*","*","F","l","u","*","*"," ","|"," ","L","o","w"," ","|">>,
      \* '| **Flu** | Low |'
    <<"|"," ","C","o","n","d","i","t","i","o","n"," ","|"," ","P","r","o","b","a","b","i","l","i","t","y"," ","|">>,
      \* '| Condition | Probability |'
    <<"|"," "," ","|"," ","H","i","g","h"," ","|">>,
      \* '|  | High |'
    <<"|"," ","F","l","u"," ","|"," ","L","i","k","e","l","y"," ","|">>,
      \* '| Flu | Likely |'
    <<"F","l","u"," ","-"," ","M","e","d","i","u","m"," ","p","r","o","b","a","b","i","l","i","t","y">>,
      \* 'Flu - Medium probability'
    <<"-"," ","C","o","l","d"," ","(","L","o","w",")">>,
      \* '- Cold (Low)'
    <<"1","."," ","G","a","s","t","r","o","e","n","t","e","r","i","t","i","s"," ","(","H","i","g","h",")">>,
      \* '1. Gastroenteritis (High)'
    <<"-"," "," ","(","H","i","g","h",")">>,
      \* '-  (High)'
    <<"P","a","r","v","o"," ","H","i","g","h">> }
      \* 'Parvo High'

\* what follows the conditions section
ConditionTails ==
  { <<>>,
      \* ''
    <<"\n","D","E","S","C","R","I","P","T","I","O","N",":","\n","G","a","s","t","r","o","e","n","t","e","r","i","t","i","s",":"," ","i","n","f","l","a","m","m","a","t","i","o","n"," ","o","f"," ","t","h","e"," ","G","I"," ","t","r","a","c","t"," ","c","a","u","s","i","n","g"," ","v","o","m","i","t","i","n","g",".","\n","R","E","C","O","M","M","E","N","D","A","T","I","O","N","S",":","\n","M","o","n","i","t","o","r"," ","h","y","d","r","a","t","i","o","n",".">>,
      \* '\nDESCRIPTION:\nGastroenteritis: inflammation of the GI tract causing vomiting.\nRECOMMENDATIONS:\nMonitor hydration.'
    <<"\n","D","E","S","C","R","I","P","T","I","O","N",":","\n","G","a","s","t","r","o","e","n","t","e","r","i","t","i","s",":"," ","i","n","f","l","a","m","m","a","t","i","o","n"," ","o","f"," ","t","h","e"," ","G","I"," ","t","r","a","c","t","\n","F","l","u",":"," ","a"," ","v","i","r","a","l"," ","i","n","f","e","c","t","i","o","n",".","\n","R","E","C","O","M","M","E","N","D","A","T","I","O","N","S",":","\n","M","o","n","i","t","o","r"," ","h","y","d","r","a","t","i","o","n",".">>,
      \* '\nDESCRIPTION:\nGastroenteritis: inflammation of the GI tract\nFlu: a viral infection.\nRECOMMENDATIONS:\nMonitor hydration.'
    <<"\n","\n","R","e","c","o","m","m","e","n","d","a","t","i","o","n","s",":","\n","-"," ","G","i","v","e"," ","w","a","t","e","r">> }
      \* '\n\nRecommendations:\n- Give water'

\* the lines a text with free-text sections is drawn from
TextLines ==
  { <<"R","e","c","o","m","m","e","n","d","a","t","i","o","n","s",":">>,
      \* 'Recommendations:'
    <<"#"," ","R","e","c","o","m","m","e","n","d","a","t","i","o","n","s">>,
      \* '# Recommendations'
    <<>>,
      \* ''
    <<" ">>,
      \* ' '
    <<"M","o","n","i","t","o","r"," ","h","y","d","r","a","t","i","o","n",".">>,
      \* 'Monitor hydration.'
    <<"-"," ","G","i","v","e"," ","w","a","t","e","r">>,
      \* '- Give water'
    <<"#"," ","N","e","x","t"," ","S","t","e","p","s">>,
      \* '# Next Steps'
    <<"D","i","a","g","n","o","s","t","i","c"," ","t","e","s","t","s",":">>,
      \* 'Diagnostic tests:'
    <<"L","o","n","g","-","t","e","r","m"," ","m","a","n","a","g","e","m","e","n","t",":">>,
      \* 'Long-term management:'
    <<"F","o","l","l","o","w"," ","t","h","e","s","e"," ","r","e","c","o","m","m","e","n","d","a","t","i","o","n","s"," ","d","a","i","l","y",".">>,
      \* 'Follow these recommendations daily.'
    <<"l","o","n","g","_","t","e","r","m"," ","m","a","n","a","g","e","m","e","n","t",":"," ","w","a","l","k"," ","d","a","i","l","y">> }
      \* 'long_term management: walk daily'

\* the lines a clinical conditions section is drawn from
ClinicalLines ==
  { <<"1","."," ","F","l","u"," ","(","M","i","l","d",")">>,
      \* '1. Flu (Mild)'
    <<"2","."," ","C","o","l","d"," ","(","m","o","d","e","r","a","t","e",")">>,
      \* '2. Cold (moderate)'
    <<"-"," ","P","a","r","v","o",":"," ","S","e","r","i","o","u","s">>,
      \* '- Parvo: Serious'
    <<"H","i","g","h"," ","f","e","v","e","r"," ","(","E","m","e","r","g","e","n","c","y",")">>,
      \* 'High fever (Emergency)'
    <<"F","l","u"," ","-"," ","H","i","g","h">>,
      \* 'Flu - High'
    <<"1",".">>,
      \* '1.'
    <<"(","M","i","l","d",")">>,
      \* '(Mild)'
    <<"L","o","w"," ","e","n","e","r","g","y">> }
      \* 'Low energy'

\* what follows the clinical conditions section
ClinicalTails ==
  { <<>>,
      \* ''
    <<"\n","C","L","I","N","I","C","A","L"," ","A","S","S","E","S","S","M","E","N","T",":","\n","F","e","v","e","r",".","\n","R","E","C","O","M","M","E","N","D","E","D"," ","D","I","A","G","N","O","S","T","I","C","S",":","\n","B","l","o","o","d"," ","t","e","s","t",".","\n","H","O","M","E"," ","C","A","R","E"," ","R","E","C","O","M","M","E","N","D","A","T","I","O","N","S",":","\n","R","e","s","t",".","\n","V","E","T","E","R","I","N","A","R","Y"," ","C","A","R","E"," ","I","N","D","I","C","A","T","O","R","S",":","\n","S","e","i","z","u","r","e","s",".">>,
      \* '\nCLINICAL ASSESSMENT:\nFever.\nRECOMMENDED DIAGNOSTICS:\nBlood test.\nHOME CARE RECOMMENDATIONS:\nRest.\nVETERINARY CARE INDICATORS:\nSeizures.'
    <<"\n","C","L","I","N","I","C","A","L"," ","A","S","S","E","S","S","M","E","N","T",":","\n","R","E","C","O","M","M","E","N","D","E","D"," ","D","I","A","G","N","O","S","T","I","C","S",":","\n","B","l","o","o","d"," ","t","e","s","t",".">> }
      \* '\nCLINICAL ASSESSMENT:\nRECOMMENDED DIAGNOSTICS:\nBlood test.'

\* the heading of the clinical conditions section
ClinicalHead ==
  <<"P","O","S","S","I","B","L","E"," ","C","O","N","D","I","T","I","O","N","S",":">>

\* the sequences of at most n elements of S
SeqsUpTo(S, n) == UNION {[1..k -> S] : k \in 0..n}

\* head \n line \n ... \n line tail
ConditionTexts ==
  {join(<<h>> \o body) \o t :
     h \in ConditionHeads, body \in SeqsUpTo(ConditionLines, MaxConditionLines),
     t \in ConditionTails}

FreeTexts == {join(body) : body \in SeqsUpTo(TextLines, MaxTextLines)}

ClinicalTexts ==
  {join(<<ClinicalHead>> \o body) \o t :
     body \in SeqsUpTo(ClinicalLines, MaxClinicalLines), t \in ClinicalTails}

\* a tail that ends the conditions section and opens a second one
ReopenedTail ==
  <<"\n","A","d","v","i","c","e",":","\n","P","o","s","s","i","b","l","e"," ","d","i","a","g","n","o","s","e","s",":","\n","-"," ","C","o","l","d"," ","(","L","o","w",")">>
  \* '\nAdvice:\nPossible diagnoses:\n- Cold (Low)'

\* a table header that holds a vocabulary word
HeaderLine ==
  <<"|"," ","C","o","n","d","i","t","i","o","n"," ","|"," ","R","i","s","k",":"," ","H","i","g","h"," ","|">>
  \* '| Condition | Risk: High |'

\* texts with at most one line in a conditions section that is opened again after
\* its end, and texts with a table header after the first line
SpecialTexts ==
  {join(<<h>> \o body) \o ReopenedTail :
     h \in ConditionHeads, body \in SeqsUpTo(ConditionLines, 1)}
  \cup {join(<<h, HeaderLine>>) : h \in ConditionHeads}

Texts == ConditionTexts \cup FreeTexts \cup ClinicalTexts \cup SpecialTexts

(***************************************************************************)
(* The state machine: a request is validated, the generative API is called *)
(* once, its text arrives (or the call fails) and the handler parses it.   *)
(***************************************************************************)
Flows == {"analyze", "server", "diagnosis", "form"}

\* a field of the request body: absent (undefined) or a string
absent == [present |-> FALSE, value |-> <<>>]
field(v) == [present |-> TRUE, value |-> v]

\* !x of a field: undefined and '' are falsy
falsy(f) == ~f.present \/ f.value = <<>>

strDog == <<"d","o","g">>
strOther == <<"o","t","h","e","r">>
strFerret == <<"f","e","r","r","e","t">>
strItching == <<"i","t","c","h","i","n","g">>

\* the requests: bodies of the three servers (parsable: the body is JSON, which
\* api-server.js parses itself), and the data of the symptom form with the API key of
\* its environment
ServerRequests(f) ==
  {[parsable |-> TRUE, apiKey |-> TRUE, petType |-> t, customPetType |-> absent,
    symptoms |-> p] :
     t \in {absent, field(<<>>), field(strDog)},
     p \in {absent, field(<<>>), field(strItching)}}
  \cup (IF f = "server"
        THEN {[parsable |-> FALSE, apiKey |-> TRUE, petType |-> absent,
               customPetType |-> absent, symptoms |-> absent]}
        ELSE {})

FormRequests ==
  {[parsable |-> TRUE, apiKey |-> k, petType |-> field(t[1]), customPetType |-> field(t[2]),
    symptoms |-> field(p)] :
     k \in BOOLEAN,
     t \in {<< <<>>, <<>> >>, <<strDog, <<>> >>, <<strOther, <<>> >>, <<strOther, strFerret>>},
     p \in {<<>>, strItching}}

Requests(f) == IF f = "form" THEN FormRequests ELSE ServerRequests(f)

\* the clinic finder before its component is mounted
noFinder ==
  [component |-> "none", pc |-> "unmounted", userLocation |-> FALSE, searches |-> 0,
   queries |-> <<>>, veterinary |-> <<>>, data |-> <<>>, clinics |-> <<>>, error |-> "",
   isLoading |-> FALSE]

\* the Home page before a submission: nothing loading, no result, no error
noHome ==
  [pc |-> "idle", retries |-> 0, requests |-> 0, outcomes |-> <<>>, isLoading |-> FALSE,
   analysisResult |-> "null", error |-> "null"]

\* the diagnosis form before a submission
noApp ==
  [isAuthenticated |-> FALSE, loading |-> FALSE, error |-> "null", result |-> "null",
   timers |-> 0, awaiting |-> 0, submissions |-> 0]

\* the diagnosis controller with no record stored and no request in hand
noStore ==
  [records |-> <<>>,
   request |-> [op |-> "none", user |-> [id |-> "", role |-> ""], id |-> 0, rating |-> 0,
                comment |-> ""],
   status |-> 0, data |-> <<>>]

\* the service worker before it is installed
noWorker ==
  [pc |-> "parsed", names |-> {}, stored |-> <<>>, deleted |-> {},
   served |-> [url |-> <<>>, from |-> "none"]]

\* the local variables of a parser at its entry
noFrame ==
  [lines |-> <<>>, i |-> 0, j |-> 0, k |-> 0, inSection |-> FALSE, description |-> <<>>]

noResponse == [status |-> 0, success |-> FALSE, message |-> "", error |-> ""]

Init ==
  /\ flow \in Flows
  /\ request \in Requests(flow)
  /\ pc = "start"
  /\ calls = 0
  /\ parses = 0
  /\ aiResponse = <<>>
  /\ aiAnalysis = <<>>
  /\ possibleConditions = <<>>
  /\ recommendations = <<>>
  /\ diagnosticTests = <<>>
  /\ longTermManagement = <<>>
  /\ result = [conditions |-> <<>>, assessment |-> <<>>, diagnostics |-> <<>>,
               homeCare |-> <<>>, vetCareIndicators |-> <<>>, rawResponse |-> <<>>]
  /\ response = noResponse
  /\ frame = noFrame
  /\ finder = noFinder
  /\ home = noHome
  /\ app = noApp
  /\ store = noStore
  /\ worker = noWorker

\* a validation that looks at the species only
validationOfSpecies(f, r) ==
  IF falsy(r.petType) THEN "Pet type and problem description are required" ELSE ""

\* the validation of the request: the message of the rejection, "" when it passes
validation(f, r) ==
  IF f = "form"
  THEN IF falsy(r.petType) THEN "Please select a pet type"
       ELSE IF r.petType.value = strOther /\ falsy(r.customPetType)
       THEN "Please specify your pet type"
       ELSE IF falsy(r.symptoms) THEN "Please describe your pet's symptoms"
       ELSE ""
  ELSE IF falsy(r.petType) \/ falsy(r.symptoms)
  THEN IF f = "diagnosis" THEN "Please provide animal type and symptoms"
       ELSE "Pet type and problem description are required"
  ELSE ""

\* the response of the handler's catch block for the error err: the servers of
\* /api/analyze put error.message in the body, the error middleware of /api/diagnosis
\* does so in development only (not modelled), the form logs it
failure(f, err) ==
  CASE f = "form" -> [status |-> 0, success |-> FALSE,
                      message |-> "Failed to analyze symptoms. Please try again.",
                      error |-> err]
    [] f = "diagnosis" -> [status |-> 500, success |-> FALSE, message |-> "Server error",
                           error |-> ""]
    [] OTHER -> [status |-> 500, success |-> FALSE,
                 message |-> "Failed to analyze pet symptoms", error |-> err]

unchangedAnalysis ==
  UNCHANGED <<aiResponse, aiAnalysis, possibleConditions, recommendations,
              diagnosticTests, longTermManagement, result>>

\* the handler up to its validation: a request with a missing field is answered
\* with status 400 (form: the error is shown) and the handler returns
Reject ==
  /\ pc = "start"
  /\ request.parsable
  /\ validation(flow, request) # ""
  /\ response' = [status |-> IF flow = "form" THEN 0 ELSE 400, success |-> FALSE,
                  message |-> validation(flow, request), error |-> ""]
  /\ pc' = "rejected"
  /\ UNCHANGED <<worker, store, app, home, finder, frame, flow, request, calls, parses>>
  /\ unchangedAnalysis

\* the handler throws before the call: api-server.js on a body that JSON.parse
\* rejects, the form without an API key
ThrowBeforeCall ==
  /\ pc = "start"
  /\ \/ ~request.parsable
     \/ validation(flow, request) = "" /\ ~request.apiKey
  /\ response' = failure(flow, IF request.parsable THEN "API key not found"
                                ELSE "Unexpected token in JSON")
  /\ pc' = "failed"
  /\ UNCHANGED <<worker, store, app, home, finder, frame, flow, request, calls, parses>>
  /\ unchangedAnalysis

\* a handler that issues a second, speculative call along with the first
CallTwice ==
  /\ pc = "start"
  /\ request.parsable
  /\ validation(flow, request) = ""
  /\ request.apiKey
  /\ calls' = calls + 2
  /\ pc' = "calling"
  /\ UNCHANGED <<worker, store, app, home, finder, frame, flow, request, parses, response>>
  /\ unchangedAnalysis

\* the handler up to `await model.generateContent(prompt)`
Call ==
  /\ pc = "start"
  /\ request.parsable
  /\ validation(flow, request) = ""
  /\ request.apiKey
  /\ calls' = calls + 1
  /\ pc' = "calling"
  /\ UNCHANGED <<worker, store, app, home, finder, frame, flow, request, parses, response>>
  /\ unchangedAnalysis

\* the generative API returns a text
Receive ==
  /\ pc = "calling"
  /\ aiResponse' \in Texts
  /\ pc' = "received"
  /\ UNCHANGED <<worker, store, app, home, finder, frame, flow, request, calls, parses, aiAnalysis, possibleConditions,
                 recommendations, diagnosticTests, longTermManagement, result, response>>

\* the generative API call is rejected: the catch block answers
CallFails ==
  /\ pc = "calling"
  /\ response' = failure(flow, "generateContent failed")
  /\ pc' = "failed"
  /\ UNCHANGED <<worker, store, app, home, finder, frame, flow, request, calls, parses>>
  /\ unchangedAnalysis

\* POST /api/analyze (api/simple-analyze.js, api-server.js): the four extractions of
\* the response text and the response
Analyze ==
  /\ pc = "received"
  /\ flow \in {"analyze", "server"}
  /\ aiAnalysis' = aiResponse
  /\ possibleConditions' = extractConditions(aiResponse)
  /\ recommendations' = extractRecommendations(aiResponse)
  /\ diagnosticTests' = extractDiagnosticTests(aiResponse)
  /\ longTermManagement' = extractLongTermManagement(aiResponse)
  /\ parses' = parses + 1
  /\ response' = [status |-> 200, success |-> TRUE, message |-> "", error |-> ""]
  /\ pc' = "analyzed"
  /\ UNCHANGED <<worker, store, app, home, finder, frame, flow, request, calls, aiResponse, result>>

\* POST /api/diagnosis: createDiagnosis stores the text, the conditions and the
\* recommendations; the schema requires a non-empty aiAnalysis
Diagnose ==
  /\ pc = "received"
  /\ flow = "diagnosis"
  /\ aiResponse # <<>>
  /\ aiAnalysis' = aiResponse
  /\ possibleConditions' = diagnosisExtractConditions(aiResponse)
  /\ recommendations' = diagnosisExtractRecommendations(aiResponse)
  /\ parses' = parses + 1
  /\ response' = [status |-> 201, success |-> TRUE, message |-> "", error |-> ""]
  /\ pc' = "diagnosed"
  /\ UNCHANGED <<worker, store, app, home, finder, frame, flow, request, calls, aiResponse, diagnosticTests, longTermManagement,
                 result>>

\* POST /api/diagnosis: Diagnosis.create rejects (always for an empty aiAnalysis, and
\* whenever the database fails); the error middleware answers
DiagnoseFails ==
  /\ pc = "received"
  /\ flow = "diagnosis"
  /\ parses' = parses + 1
  /\ response' = failure(flow, "Diagnosis validation failed")
  /\ pc' = "failed"
  /\ UNCHANGED <<worker, store, app, home, finder, frame, flow, request, calls>>
  /\ unchangedAnalysis

\* the symptom form, handleSubmit with a response text: the text is formatted and
\* parsed
Parse ==
  /\ pc = "received"
  /\ flow = "form"
  /\ aiResponse # <<>>
  /\ result' = parseResponse(formattedResponse(aiResponse))
  /\ parses' = parses + 1
  /\ response' = [status |-> 0, success |-> TRUE, message |-> "", error |-> ""]
  /\ pc' = "parsed"
  /\ UNCHANGED <<worker, store, app, home, finder, frame, flow, request, calls, aiResponse, aiAnalysis, possibleConditions,
                 recommendations, diagnosticTests, longTermManagement>>

\* the symptom form, handleSubmit with an empty response text: 'Received empty
\* response from AI' is thrown and no result is set
ParseEmpty ==
  /\ pc = "received"
  /\ flow = "form"
  /\ aiResponse = <<>>
  /\ response' = failure(flow, "Received empty response from AI")
  /\ pc' = "failed"
  /\ UNCHANGED <<worker, store, app, home, finder, frame, flow, request, calls, parses>>
  /\ unchangedAnalysis

Next ==
  \/ Reject \/ ThrowBeforeCall \/ Call \/ Receive \/ CallFails
  \/ Analyze \/ Diagnose \/ DiagnoseFails \/ Parse \/ ParseEmpty

Spec == Init /\ [][Next]_vars

(***************************************************************************)
(* The parsers step by step: one action per iteration of each loop of      *)
(* extractConditions (api/simple-analyze.js) and of parseResponse, to      *)
(* state that they run to their return.  Reading lines[n] beyond the end   *)
(* of the array gives undefined, and a method call on it throws.           *)
(***************************************************************************)

\* a loop condition that admits the index one past the end: index <= array.length
inRangeOffByOne(array, index) == index <= Len(array) + 1

\* the condition of a for loop over an array, index < array.length, with the
\* indices counted from 1
inRange(array, index) == index <= Len(array)

\* the variables that a running parser does not touch
unchangedByParser ==
  UNCHANGED <<worker, store, app, home, finder, flow, request, calls, parses, aiResponse, aiAnalysis, recommendations,
              diagnosticTests, longTermManagement, response>>

LoopInit ==
  /\ flow = "none"
  /\ request = [parsable |-> TRUE, apiKey |-> TRUE, petType |-> absent,
                customPetType |-> absent, symptoms |-> absent]
  /\ pc = "idle"
  /\ calls = 0
  /\ parses = 0
  /\ aiResponse = <<>>
  /\ aiAnalysis = <<>>
  /\ possibleConditions = <<>>
  /\ recommendations = <<>>
  /\ diagnosticTests = <<>>
  /\ longTermManagement = <<>>
  /\ result = [conditions |-> <<>>, assessment |-> <<>>, diagnostics |-> <<>>,
               homeCare |-> <<>>, vetCareIndicators |-> <<>>, rawResponse |-> <<>>]
  /\ response = noResponse
  /\ frame = noFrame
  /\ finder = noFinder
  /\ home = noHome
  /\ app = noApp
  /\ store = noStore
  /\ worker = noWorker

\* a parser is called with a text
CallParser ==
  /\ pc = "idle"
  /\ aiResponse' \in Texts
  /\ pc' \in {"extractConditions", "parseResponse"}
  /\ UNCHANGED <<worker, store, app, home, finder, flow, request, calls, parses, aiAnalysis, possibleConditions,
                 recommendations, diagnosticTests, longTermManagement, result, response,
                 frame>>

\* a TypeError leaves the parser
Throw ==
  /\ pc' = "thrown"
  /\ UNCHANGED <<frame, possibleConditions, result>>

\* extractConditions up to its first loop
EnterExtractConditions ==
  /\ pc = "extractConditions"
  /\ frame' = [noFrame EXCEPT !.lines = split(aiResponse), !.i = 1]
  /\ possibleConditions' = <<>>
  /\ pc' = "firstPass"
  /\ UNCHANGED result
  /\ unchangedByParser

\* one iteration of the first pass, or its end
FirstPassStep ==
  /\ pc = "firstPass"
  /\ IF ~inRange(frame.lines, frame.i)
     THEN /\ frame' = [frame EXCEPT !.i = 1, !.inSection = FALSE]
          /\ pc' = "secondPass"
          /\ UNCHANGED <<possibleConditions, result>>
     ELSE IF frame.i > Len(frame.lines) THEN Throw
     ELSE LET line == frame.lines[frame.i]
          IN  IF isConditionsHeading(line)
              THEN /\ frame' = [frame EXCEPT !.i = @ + 1, !.inSection = TRUE]
                   /\ pc' = "firstPass"
                   /\ UNCHANGED <<possibleConditions, result>>
              ELSE IF frame.inSection /\ isConditionsEnd(line)
              THEN /\ frame' = [frame EXCEPT !.i = 1, !.inSection = FALSE]
                   /\ pc' = "secondPass"
                   /\ UNCHANGED <<possibleConditions, result>>
              ELSE /\ frame' = [frame EXCEPT !.i = @ + 1]
                   /\ possibleConditions' =
                        IF frame.inSection /\ trim(line) # <<>>
                        THEN possibleConditions \o lineConditions(line, frame.i)
                        ELSE possibleConditions
                   /\ pc' = "firstPass"
                   /\ UNCHANGED result
  /\ unchangedByParser

\* one iteration of the second pass up to its loop over the conditions, or its end
SecondPassStep ==
  /\ pc = "secondPass"
  /\ IF ~inRange(frame.lines, frame.i)
     THEN pc' = "fill" /\ UNCHANGED frame
     ELSE IF frame.i > Len(frame.lines) THEN pc' = "thrown" /\ UNCHANGED frame
     ELSE LET line == frame.lines[frame.i]
              low  == toLowerCase(line)
          IN  IF \/ includes(low, strDescriptionOfEachCondition)
                 \/ (includes(low, strDescription) /\ ~frame.inSection)
              THEN /\ frame' = [frame EXCEPT !.i = @ + 1, !.inSection = TRUE]
                   /\ pc' = "secondPass"
              ELSE IF /\ frame.inSection
                      /\ (includes(low, strRecommendations) \/ includes(low, strAdvice))
              THEN pc' = "fill" /\ UNCHANGED frame
              ELSE IF frame.inSection /\ trim(line) # <<>>
              THEN /\ frame' = [frame EXCEPT !.j = 1]
                   /\ pc' = "conditionsLoop"
              ELSE /\ frame' = [frame EXCEPT !.i = @ + 1]
                   /\ pc' = "secondPass"
  /\ UNCHANGED <<possibleConditions, result>>
  /\ unchangedByParser

\* one iteration of the loop over the conditions for line i, or its end
ConditionsLoopStep ==
  /\ pc = "conditionsLoop"
  /\ IF ~inRange(possibleConditions, frame.j)
     THEN /\ frame' = [frame EXCEPT !.i = @ + 1]
          /\ pc' = "secondPass"
     ELSE IF frame.j > Len(possibleConditions) THEN pc' = "thrown" /\ UNCHANGED frame
     ELSE LET line == frame.lines[frame.i]
              colonIndex == indexOf(line, <<":">>)
          IN  IF namesCondition(line, possibleConditions[frame.j].condition)
              THEN /\ frame' = [frame EXCEPT
                                  !.description = IF colonIndex # 0
                                                  THEN trim(from(line, colonIndex + 1))
                                                  ELSE <<>>,
                                  !.k = frame.i + 1]
                   /\ pc' = "lookAhead"
              ELSE /\ frame' = [frame EXCEPT !.j = @ + 1]
                   /\ pc' = "conditionsLoop"
  /\ UNCHANGED <<possibleConditions, result>>
  /\ unchangedByParser

\* one iteration of the look-ahead loop, or its end: the condition gets the
\* description and the loop over the conditions is left
LookAheadStep ==
  /\ pc = "lookAhead"
  /\ IF inRange(frame.lines, frame.k) /\ frame.k > Len(frame.lines) THEN Throw
     ELSE IF /\ inRange(frame.lines, frame.k)
             /\ trim(frame.lines[frame.k]) # <<>>
             /\ ~startsNewCondition(frame.lines[frame.k])
             /\ ~includes(toLowerCase(frame.lines[frame.k]), strRecommendations)
     THEN /\ frame' = [frame EXCEPT
                         !.description = @ \o <<" ">> \o trim(frame.lines[frame.k]),
                         !.k = @ + 1]
          /\ pc' = "lookAhead"
          /\ UNCHANGED <<possibleConditions, result>>
     ELSE /\ possibleConditions' =
               [possibleConditions EXCEPT ![frame.j].description = trim(frame.description)]
          /\ frame' = [frame EXCEPT !.i = @ + 1]
          /\ pc' = "secondPass"
          /\ UNCHANGED result
  /\ unchangedByParser

\* after the second pass: are the descriptions to be taken from the conditions
\* section?
FillDescriptions ==
  /\ pc = "fill"
  /\ IF /\ Len(possibleConditions) > 0
        /\ \A c \in 1..Len(possibleConditions) : possibleConditions[c].description = <<>>
     THEN /\ frame' = [frame EXCEPT !.j = 1]
          /\ pc' = "fillLoop"
     ELSE /\ UNCHANGED frame
          /\ pc' = "checkConditions"
  /\ UNCHANGED <<possibleConditions, result>>
  /\ unchangedByParser

\* one iteration of the loop that calls extractDescriptionForCondition, or its end
FillLoopStep ==
  /\ pc = "fillLoop"
  /\ IF ~inRange(possibleConditions, frame.j)
     THEN pc' = "checkConditions" /\ UNCHANGED frame
     ELSE /\ frame' = [frame EXCEPT !.i = 1]
          /\ pc' = "describe"
  /\ UNCHANGED <<possibleConditions, result>>
  /\ unchangedByParser

\* one iteration of the loop of extractDescriptionForCondition, or its return
DescribeStep ==
  /\ pc = "describe"
  /\ IF ~inRange(frame.lines, frame.i)
     THEN /\ possibleConditions' =
               [possibleConditions EXCEPT ![frame.j].description = strNoDetailedDescription]
          /\ frame' = [frame EXCEPT !.j = @ + 1]
          /\ pc' = "fillLoop"
          /\ UNCHANGED result
     ELSE IF \/ frame.i > Len(frame.lines)
             \/ /\ includes(frame.lines[frame.i], possibleConditions[frame.j].condition)
                /\ inRange(frame.lines, frame.i + 1)
                /\ frame.i + 1 > Len(frame.lines)
     THEN Throw
     ELSE IF /\ includes(frame.lines[frame.i], possibleConditions[frame.j].condition)
             /\ inRange(frame.lines, frame.i + 1)
             /\ ~includes(frame.lines[frame.i + 1], strProbability)
             /\ trim(frame.lines[frame.i + 1]) # <<>>
     THEN /\ possibleConditions' =
               [possibleConditions EXCEPT
                  ![frame.j].description = trim(frame.lines[frame.i + 1])]
          /\ frame' = [frame EXCEPT !.j = @ + 1]
          /\ pc' = "fillLoop"
          /\ UNCHANGED result
     ELSE /\ frame' = [frame EXCEPT !.i = @ + 1]
          /\ pc' = "describe"
          /\ UNCHANGED <<possibleConditions, result>>
  /\ unchangedByParser

\* after the strict rules: is the aggressive pass needed?
CheckConditions ==
  /\ pc = "checkConditions"
  /\ IF Len(possibleConditions) = 0
     THEN /\ frame' = [frame EXCEPT !.i = 1]
          /\ pc' = "aggressive"
     ELSE /\ UNCHANGED frame
          /\ pc' = "return"
  /\ UNCHANGED <<possibleConditions, result>>
  /\ unchangedByParser

\* one iteration of the aggressive pass, or its end
AggressiveStep ==
  /\ pc = "aggressive"
  /\ IF ~inRange(frame.lines, frame.i)
     THEN /\ pc' = "return"
          /\ UNCHANGED <<frame, possibleConditions, result>>
     ELSE IF frame.i > Len(frame.lines) THEN Throw
     ELSE /\ possibleConditions' =
               possibleConditions \o aggressiveLine(frame.lines[frame.i], frame.i)
          /\ frame' = [frame EXCEPT !.i = @ + 1]
          /\ pc' = "aggressive"
          /\ UNCHANGED result
  /\ unchangedByParser

\* the return of extractConditions, with the sentinel when nothing was extracted
ReturnConditions ==
  /\ pc = "return"
  /\ possibleConditions' = IF Len(possibleConditions) = 0 THEN <<unspecifiedCondition>>
                           ELSE possibleConditions
  /\ pc' = "returned"
  /\ UNCHANGED <<frame, result>>
  /\ unchangedByParser

\* parseResponse up to the map over the lines of the conditions section
EnterParseResponse ==
  /\ pc = "parseResponse"
  /\ LET conditionsMatch == sectionAfter(aiResponse, strPossibleConditionsHeading,
                                         strClinicalAssessmentHeading)
     IN  frame' = [noFrame EXCEPT
                     !.lines = IF conditionsMatch # <<>>
                               THEN SelectSeq(split(trim(conditionsMatch)),
                                              LAMBDA line : Len(trim(line)) > 0)
                               ELSE <<>>,
                     !.j = 1]
  /\ result' = [conditions |-> <<>>, assessment |-> <<>>, diagnostics |-> <<>>,
                homeCare |-> <<>>, vetCareIndicators |-> <<>>, rawResponse |-> aiResponse]
  /\ pc' = "map"
  /\ UNCHANGED possibleConditions
  /\ unchangedByParser

\* one call of the callback of conditionLines.map, or the end of the map
MapStep ==
  /\ pc = "map"
  /\ IF frame.j > Len(frame.lines)
     THEN /\ pc' = "assign"
          /\ UNCHANGED <<frame, result>>
     ELSE /\ result' = [result EXCEPT
                          !.conditions = Append(@, parseCondition(frame.lines[frame.j]))]
          /\ frame' = [frame EXCEPT !.j = @ + 1]
          /\ pc' = "map"
  /\ UNCHANGED possibleConditions
  /\ unchangedByParser

\* the other sections are assigned and parseResponse returns
AssignSections ==
  /\ pc = "assign"
  /\ result' = [result EXCEPT
       !.assessment = trim(sectionAfter(aiResponse, strClinicalAssessmentHeading,
                                        strRecommendedDiagnosticsHeading)),
       !.diagnostics = trim(sectionAfter(aiResponse, strRecommendedDiagnosticsHeading,
                                         strHomeCareRecommendationsHeading)),
       !.homeCare = trim(sectionAfter(aiResponse, strHomeCareRecommendationsHeading,
                                      strVeterinaryCareIndicatorsHeading)),
       !.vetCareIndicators = trim(sectionAfter(aiResponse,
                                               strVeterinaryCareIndicatorsHeading, <<>>))]
  /\ pc' = "returned"
  /\ UNCHANGED <<frame, possibleConditions>>
  /\ unchangedByParser

LoopNext ==
  \/ CallParser
  \/ EnterExtractConditions \/ FirstPassStep \/ SecondPassStep \/ ConditionsLoopStep
  \/ LookAheadStep \/ FillDescriptions \/ FillLoopStep \/ DescribeStep
  \/ CheckConditions \/ AggressiveStep \/ ReturnConditions
  \/ EnterParseResponse \/ MapStep \/ AssignSections

LoopSpec == LoopInit /\ [][LoopNext]_vars

(***************************************************************************)
(* The clinic finder: the find-a-vet page VetMap (src/Pages/map.tsx) and   *)
(* the component NearbyVetsMap (src/components/NearbyVetsMap.tsx).  An     *)
(* element of an Overpass response carries its great-circle distance from  *)
(* the user in metres (the haversine formula with R = 6371 km applied to   *)
(* its coordinates and the user's), which stands for its coordinates.      *)
(***************************************************************************)
MaxElements == 2
MaxSearches == 2

\* a node with tags, a way or relation (`out body` gives them no coordinates), and a
\* node of a way as `>; out skel qt;` lists it: coordinates, no tags
node(id, amenity, shop, metres) ==
  [type |-> "node", id |-> id, tags |-> TRUE, amenity |-> amenity, shop |-> shop,
   lat |-> TRUE, metres |-> metres]
area(type, id, amenity, shop) ==
  [type |-> type, id |-> id, tags |-> TRUE, amenity |-> amenity, shop |-> shop,
   lat |-> FALSE, metres |-> 0]
skeleton(id, metres) ==
  [type |-> "node", id |-> id, tags |-> FALSE, amenity |-> "", shop |-> "",
   lat |-> TRUE, metres |-> metres]

\* what the query for amenity=veterinary can return
VeterinaryElements ==
  { node(1, "veterinary", "", 60), node(2, "veterinary", "", 140),
    node(3, "veterinary", "", 151), node(4, "veterinary", "", 4951),
    area("way", 5, "veterinary", ""), area("relation", 6, "veterinary", ""),
    skeleton(7, 70) }

\* what the query for shop=pet and amenity=animal_boarding can return
AlternativeElements ==
  { node(8, "", "pet", 40), node(9, "animal_boarding", "", 1249),
    area("way", 10, "", "pet"), skeleton(11, 30) }

\* the responses drawn from a set of elements: no element twice
Responses(S) ==
  {r \in SeqsUpTo(S, MaxElements) :
     \A m, n \in 1..Len(r) : m # n => r[m].id # r[n].id}

digits == <<"0","1","2","3","4","5","6","7","8","9">>

\* Number.prototype.toString of a natural number
RECURSIVE toDecimal(_)
toDecimal(n) ==
  IF n < 10 THEN <<digits[n + 1]>> ELSE toDecimal(n \div 10) \o <<digits[(n % 10) + 1]>>

\* distance.toFixed(1) of a distance of so many metres, in km
toFixed(metres) ==
  LET tenths == (metres + 50) \div 100
  IN  toDecimal(tenths \div 10) \o <<".">> \o <<digits[(tenths % 10) + 1]>>

\* s.split(" ")[0]
firstWord(s) ==
  LET spaces == {n \in 1..Len(s) : s[n] = " "}
  IN  IF spaces = {} THEN s
      ELSE SubSeq(s, 1, (CHOOSE n \in spaces : \A m \in spaces : n <= m) - 1)

\* the value of a run of digits
RECURSIVE digitsValue(_)
digitsValue(s) ==
  IF s = <<>> THEN 0
  ELSE 10 * digitsValue(SubSeq(s, 1, Len(s) - 1))
         + (CHOOSE d \in 0..9 : digits[d + 1] = s[Len(s)])

\* parseFloat of a string of digits with at most one digit after the point, in
\* tenths; without a leading digit it is NaN, which toFixed(1) of the distance of
\* a node never gives (0 here)
parseFloat(s) ==
  LET stops == {n \in 1..Len(s) : s[n] \notin Digit}
      whole == IF stops = {} THEN Len(s)
               ELSE (CHOOSE n \in stops : \A m \in stops : n <= m) - 1
      tenth == IF /\ whole + 2 <= Len(s)
                  /\ s[whole + 1] = "."
                  /\ s[whole + 2] \in Digit
               THEN digitsValue(<<s[whole + 2]>>) ELSE 0
  IN  10 * digitsValue(SubSeq(s, 1, whole)) + tenth

\* a sort that leaves the elements as they are
unsortedPairs(pairs) == pairs

\* Array.prototype.sort with the comparator (a, b) => key(a) - key(b), on pairs
\* <<key, element>>: stable, ascending by key
RECURSIVE sortPairs(_)
sortPairs(pairs) ==
  IF pairs = <<>> THEN <<>>
  ELSE LET last == pairs[Len(pairs)]
           front == sortPairs(SubSeq(pairs, 1, Len(pairs) - 1))
           before == Cardinality({n \in 1..Len(front) : front[n][1] <= last[1]})
       IN  SubSeq(front, 1, before) \o <<last>> \o SubSeq(front, before + 1, Len(front))

\* the elements of a sorted sequence of pairs
second(pairs) == [n \in 1..Len(pairs) |-> pairs[n][2]]

\* VetMap: the elements that become clinics
isListed(element) ==
  /\ element.type = "node"
  /\ element.lat
  /\ element.tags
  /\ \/ element.amenity = "veterinary"
     \/ element.shop = "pet"
     \/ element.amenity = "animal_boarding"

\* VetMap: the clinic of an element (position: as the distance from the user)
clinicOf(element) ==
  [id |-> toDecimal(element.id),
   name |-> IF element.amenity = "veterinary" THEN "Veterinary Clinic"
            ELSE IF element.shop = "pet" THEN "Pet Shop" ELSE "Animal Boarding",
   position |-> element.metres,
   distance |-> toFixed(element.metres) \o <<" ","k","m">>]

\* VetMap: filter, map and sort of the last .then callback
vetClinics(elements) ==
  LET listed == SelectSeq(elements, isListed)
  IN  second(sortPairs([n \in 1..Len(listed) |->
                          <<parseFloat(firstWord(clinicOf(listed[n]).distance)),
                            clinicOf(listed[n])>>]))

\* NearbyVetsMap: calculateDistance, Math.round(distance * 10) / 10, in tenths of a km
calculateDistance(element) == (element.metres + 50) \div 100

\* NearbyVetsMap: the forEach over data.elements and the sort
nearbyClinics(elements) ==
  LET listed == SelectSeq(elements, LAMBDA element :
                            /\ element.type = "node"
                            /\ element.tags
                            /\ element.amenity = "veterinary")
  IN  second(sortPairs([n \in 1..Len(listed) |->
                          <<calculateDistance(listed[n]),
                            [id |-> toDecimal(listed[n].id),
                             name |-> "Unnamed Veterinary Clinic",
                             position |-> listed[n].metres,
                             distance |-> calculateDistance(listed[n])]>>]))

\* the variables of the analysis, which the finder does not touch
unchangedByFinder ==
  UNCHANGED <<flow, request, pc, calls, parses, aiResponse, aiAnalysis,
              possibleConditions, recommendations, diagnosticTests, longTermManagement,
              result, response, frame, home, app, store, worker>>

\* one of the two components is mounted
FinderInit ==
  /\ flow = "none"
  /\ request = [parsable |-> TRUE, apiKey |-> TRUE, petType |-> absent,
                customPetType |-> absent, symptoms |-> absent]
  /\ pc = "idle"
  /\ calls = 0
  /\ parses = 0
  /\ aiResponse = <<>>
  /\ aiAnalysis = <<>>
  /\ possibleConditions = <<>>
  /\ recommendations = <<>>
  /\ diagnosticTests = <<>>
  /\ longTermManagement = <<>>
  /\ result = [conditions |-> <<>>, assessment |-> <<>>, diagnostics |-> <<>>,
               homeCare |-> <<>>, vetCareIndicators |-> <<>>, rawResponse |-> <<>>]
  /\ response = noResponse
  /\ frame = noFrame
  /\ \E component \in {"VetMap", "NearbyVetsMap"} :
       finder = [noFinder EXCEPT !.component = component, !.pc = "mounted",
                                 !.searches = 1, !.isLoading = TRUE]
  /\ home = noHome
  /\ app = noApp
  /\ store = noStore
  /\ worker = noWorker

\* the query for veterinary clinics
veterinaryQuery == "amenity=veterinary"

\* the query for pet shops and animal boarding
alternativeQuery == "shop=pet, amenity=animal_boarding"

\* getCurrentPosition calls back with a position.  VetMap sets userLocation (its
\* second effect then sends the query); NearbyVetsMap calls findNearbyVets, which
\* runs up to its fetch, and then clears isLoading
Locate ==
  /\ finder.pc = "mounted"
  /\ finder' = IF finder.component = "VetMap"
               THEN [finder EXCEPT !.userLocation = TRUE, !.isLoading = FALSE,
                                   !.pc = "located"]
               ELSE [finder EXCEPT !.userLocation = TRUE, !.error = "",
                                   !.queries = Append(@, veterinaryQuery),
                                   !.isLoading = FALSE,
                                   !.pc = "veterinary"]
  /\ unchangedByFinder

\* getCurrentPosition calls back with an error, or geolocation is not supported
LocateFails ==
  /\ finder.pc = "mounted"
  /\ finder' = IF finder.component = "VetMap"
               THEN [finder EXCEPT
                       !.error = "Error getting your location. Please enable location services.",
                       !.isLoading = FALSE,
                       !.pc = "failed"]
               ELSE [finder EXCEPT !.error = "Unable to get your location",
                                   !.isLoading = FALSE,
                                   !.pc = "failed"]
  /\ unchangedByFinder

\* VetMap: the effect on userLocation sends the veterinary query
FindClinics ==
  /\ finder.component = "VetMap"
  /\ finder.pc = "located"
  /\ finder' = [finder EXCEPT !.queries = Append(@, veterinaryQuery), !.pc = "veterinary"]
  /\ unchangedByFinder

\* VetMap: the response to the veterinary query arrives.  Without an element tagged
\* amenity=veterinary the alternative query is sent, else the data go on
VeterinaryResponse ==
  /\ finder.component = "VetMap"
  /\ finder.pc = "veterinary"
  /\ \E data \in Responses(VeterinaryElements) :
       LET elements == SelectSeq(data, LAMBDA element :
                                   element.tags /\ element.amenity = "veterinary")
       IN  finder' = IF Len(elements) = 0
                     THEN [finder EXCEPT !.veterinary = data,
                                         !.queries = Append(@, alternativeQuery),
                                         !.pc = "alternative"]
                     ELSE [finder EXCEPT !.veterinary = data, !.data = data,
                                         !.pc = "listing"]
  /\ unchangedByFinder

\* VetMap: the response to the alternative query arrives
AlternativeResponse ==
  /\ finder.component = "VetMap"
  /\ finder.pc = "alternative"
  /\ \E data \in Responses(AlternativeElements) :
       finder' = [finder EXCEPT !.data = data, !.pc = "listing"]
  /\ unchangedByFinder

\* VetMap: the last .then callback sets the clinic list
ListClinics ==
  /\ finder.component = "VetMap"
  /\ finder.pc = "listing"
  /\ finder' = [finder EXCEPT
                  !.clinics = vetClinics(finder.data),
                  !.error = IF Len(vetClinics(finder.data)) = 0
                            THEN "No veterinary clinics found in your area." ELSE @,
                  !.pc = "listed"]
  /\ unchangedByFinder

\* NearbyVetsMap: findNearbyVets from the response on
ProcessResponse ==
  /\ finder.component = "NearbyVetsMap"
  /\ finder.pc = "veterinary"
  /\ \E data \in Responses(VeterinaryElements) :
       finder' = [finder EXCEPT
                    !.veterinary = data,
                    !.data = data,
                    !.clinics = nearbyClinics(data),
                    !.error = IF Len(nearbyClinics(data)) = 0
                              THEN "No veterinary clinics found nearby. Try increasing the search radius."
                              ELSE @,
                    !.isLoading = FALSE,
                    !.pc = "listed"]
  /\ unchangedByFinder

\* a fetch is rejected, the response is not ok or is no JSON: the catch
FetchFails ==
  /\ finder.pc \in {"veterinary", "alternative"}
  /\ finder' = [finder EXCEPT
                  !.error = IF finder.component = "VetMap"
                            THEN "Failed to fetch nearby veterinary clinics."
                            ELSE "Failed to find nearby veterinary clinics. Please try again later.",
                  !.isLoading = FALSE,
                  !.pc = "failed"]
  /\ unchangedByFinder

\* NearbyVetsMap: the button, disabled while isLoading, calls getUserLocation again
SearchAgain ==
  /\ finder.component = "NearbyVetsMap"
  /\ finder.pc \in {"listed", "failed"}
  /\ ~finder.isLoading
  /\ finder.searches < MaxSearches
  /\ finder' = [finder EXCEPT !.searches = @ + 1, !.error = "", !.isLoading = TRUE,
                              !.pc = "mounted"]
  /\ unchangedByFinder

FinderNext ==
  \/ Locate
  \/ LocateFails
  \/ FindClinics
  \/ VeterinaryResponse
  \/ AlternativeResponse
  \/ ListClinics
  \/ ProcessResponse
  \/ FetchFails
  \/ SearchAgain

FinderSpec == FinderInit /\ [][FinderNext]_vars

(***************************************************************************)
(* Home page: handleAnalyzeSubmit and its retries.  The outcome of each    *)
(* /api/analyze request is an input; home.outcomes records the outcomes of *)
(* the requests of the call in hand.                                       *)
(***************************************************************************)
maxRetries == 2

\* what one request may end in: a 2xx answer with success true; a non-2xx answer
\* whose JSON body has a message, has none, or that has no JSON body; a 2xx answer
\* with success false, with and without a message; a 2xx answer that is not JSON; a
\* rejected fetch; the abort after 30 seconds
Outcomes ==
  {"success", "non2xxMessage", "non2xxNoMessage", "non2xxNoJson", "successFalseMessage",
   "successFalseNoMessage", "notJson", "networkError", "abort"}

\* the error attemptApiCall throws for a failed request
thrown(outcome) ==
  CASE outcome = "non2xxMessage" -> [name |-> "Error", message |-> "server message"]
    [] outcome = "non2xxNoMessage" ->
         [name |-> "Error", message |-> "Failed to analyze pet symptoms"]
    [] outcome = "non2xxNoJson" ->
         [name |-> "Error", message |-> "Server error (status): statusText"]
    [] outcome = "successFalseMessage" -> [name |-> "Error", message |-> "server message"]
    [] outcome = "successFalseNoMessage" -> [name |-> "Error", message |-> "Analysis failed"]
    [] outcome = "notJson" -> [name |-> "SyntaxError", message |-> "Unexpected token"]
    [] outcome = "networkError" -> [name |-> "TypeError", message |-> "Failed to fetch"]
    [] OTHER -> [name |-> "AbortError", message |-> "The user aborted a request."]

\* err.message.includes('Failed to fetch') || err.message.includes('NetworkError')
mentionsNetwork(message) == message = "Failed to fetch"

\* the text the catch block of handleAnalyzeSubmit shows for an error
shownError(err) ==
  IF err.name = "AbortError"
  THEN "Request timed out. Please check your connection and try again."
  ELSE IF mentionsNetwork(err.message)
  THEN "Network error. Please check your connection and try again."
  ELSE err.message

\* a variant of the retry test that allows one more attempt
mayRetryOnceMore(retries) == retries <= maxRetries

\* the test of the catch block of attemptApiCall
mayRetry(retries) == retries < maxRetries

unchangedByHome ==
  UNCHANGED <<flow, request, pc, calls, parses, aiResponse, aiAnalysis,
              possibleConditions, recommendations, diagnosticTests, longTermManagement,
              result, response, frame, finder, app, store, worker>>

\* no request handler runs and no map component is mounted
serverIdle ==
  /\ flow = "none"
  /\ request = [parsable |-> TRUE, apiKey |-> TRUE, petType |-> absent,
                customPetType |-> absent, symptoms |-> absent]
  /\ pc = "idle"
  /\ calls = 0
  /\ parses = 0
  /\ aiResponse = <<>>
  /\ aiAnalysis = <<>>
  /\ possibleConditions = <<>>
  /\ recommendations = <<>>
  /\ diagnosticTests = <<>>
  /\ longTermManagement = <<>>
  /\ result = [conditions |-> <<>>, assessment |-> <<>>, diagnostics |-> <<>>,
               homeCare |-> <<>>, vetCareIndicators |-> <<>>, rawResponse |-> <<>>]
  /\ response = noResponse
  /\ frame = noFrame
  /\ finder = noFinder

\* the Home page is shown
HomeInit ==
  /\ serverIdle
  /\ home = noHome
  /\ app = noApp
  /\ store = noStore
  /\ worker = noWorker

\* handleAnalyzeSubmit up to its first fetch; the form's button is disabled while
\* isLoading
HomeSubmit ==
  /\ home.pc \in {"idle", "done"}
  /\ ~home.isLoading
  /\ home' = [pc |-> "fetching", retries |-> 0, requests |-> 1, outcomes |-> <<>>,
              isLoading |-> TRUE, analysisResult |-> "null", error |-> "null"]
  /\ unchangedByHome

\* the request ends: the result is set, or the call waits to retry, or the error of
\* the last attempt is shown; the finally block clears isLoading
HomeSettle ==
  /\ home.pc = "fetching"
  /\ \E outcome \in Outcomes :
       home' =
         IF outcome = "success"
         THEN [home EXCEPT !.pc = "done", !.outcomes = Append(@, outcome),
                           !.analysisResult = "data", !.isLoading = FALSE]
         ELSE IF mayRetry(home.retries)
         THEN [home EXCEPT !.pc = "backoff", !.outcomes = Append(@, outcome),
                           !.retries = @ + 1]
         ELSE [home EXCEPT !.pc = "done", !.outcomes = Append(@, outcome),
                           !.error = shownError(thrown(outcome)), !.isLoading = FALSE]
  /\ unchangedByHome

\* the back-off timer fires: attemptApiCall again
HomeRetry ==
  /\ home.pc = "backoff"
  /\ home' = [home EXCEPT !.pc = "fetching", !.requests = @ + 1]
  /\ unchangedByHome

HomeNext ==
  \/ HomeSubmit
  \/ HomeSettle
  \/ HomeRetry

HomeSpec == HomeInit /\ [][HomeNext]_vars

\* every fetch settles (the abort fires after 30 seconds at the latest) and every
\* back-off timer fires
HomeFairSpec == HomeSpec /\ WF_vars(HomeSettle) /\ WF_vars(HomeRetry)

(***************************************************************************)
(* Diagnosis form of App: handleSubmit.  app.timers counts the sample-data *)
(* timers that have not fired, app.awaiting the createDiagnosis calls that *)
(* have not returned, app.submissions the submissions so far.              *)
(***************************************************************************)
MaxSubmissions == 6

unchangedByApp ==
  UNCHANGED <<flow, request, pc, calls, parses, aiResponse, aiAnalysis,
              possibleConditions, recommendations, diagnosticTests, longTermManagement,
              result, response, frame, finder, home, store, worker>>

\* the form is shown, to a visitor or to a logged-in user
AppInit ==
  /\ serverIdle
  /\ home = noHome
  /\ \E isAuthenticated \in BOOLEAN : app = [noApp EXCEPT !.isAuthenticated = isAuthenticated]
  /\ store = noStore
  /\ worker = noWorker

\* handleSubmit up to its first await or its return, the finally block included; the
\* button is disabled while loading
AppSubmit ==
  /\ ~app.loading
  /\ app.submissions < MaxSubmissions
  /\ \E animalType \in {"", "Dog"}, symptoms \in {"", "itching"} :
       app' =
         IF animalType = "" \/ symptoms = ""
         THEN [app EXCEPT !.error = "Please fill in all fields", !.submissions = @ + 1]
         ELSE IF ~app.isAuthenticated
         \* setTimeout, return: the finally block runs at once
         THEN [app EXCEPT !.error = "null", !.timers = @ + 1, !.loading = FALSE,
                          !.submissions = @ + 1]
         ELSE [app EXCEPT !.error = "null", !.awaiting = @ + 1, !.loading = TRUE,
                          !.submissions = @ + 1]
  /\ unchangedByApp

\* the callback of the sample-data timer
AppSample ==
  /\ app.timers > 0
  /\ app' = [app EXCEPT !.timers = @ - 1, !.result = "sample", !.loading = FALSE]
  /\ unchangedByApp

\* createDiagnosis returns or throws: the rest of handleSubmit
AppResponse ==
  /\ app.awaiting > 0
  /\ \E outcome \in {"data", "failure", "thrown"} :
       app' =
         IF outcome = "data"
         THEN [app EXCEPT !.awaiting = @ - 1, !.result = "data", !.loading = FALSE]
         ELSE IF outcome = "failure"
         THEN [app EXCEPT !.awaiting = @ - 1, !.loading = FALSE,
                          !.error = "Failed to analyze symptoms. Please try again."]
         ELSE [app EXCEPT !.awaiting = @ - 1, !.loading = FALSE,
                          !.error = "An error occurred while analyzing symptoms. Please try again."]
  /\ unchangedByApp

AppNext ==
  \/ AppSubmit
  \/ AppSample
  \/ AppResponse

AppSpec == AppInit /\ [][AppNext]_vars

(***************************************************************************)
(* Diagnosis controller: the stored records.  A record is kept as its      *)
(* owner and its feedback, its _id is its index in store.records;          *)
(* store.data holds the _ids of the records a response carries.  The       *)
(* routes run protect first, so every request has a user.                  *)
(***************************************************************************)
MaxRecords == 2

\* the users protect may put in req.user
Requesters ==
  {[id |-> "u1", role |-> "user"], [id |-> "u2", role |-> "veterinarian"],
   [id |-> "u3", role |-> "admin"]}

Ratings == {0, 3, 6}

noFeedback == [rating |-> 0, comment |-> ""]

unchangedByStore ==
  UNCHANGED <<flow, request, pc, calls, parses, aiResponse, aiAnalysis,
              possibleConditions, recommendations, diagnosticTests, longTermManagement,
              result, response, frame, finder, home, app, worker>>

StoreInit ==
  /\ serverIdle
  /\ home = noHome
  /\ app = noApp
  /\ store = noStore
  /\ worker = noWorker

\* a variant of the ownership test that lets every role but 'user' pass
staffOwnership(diagnosis, user) == diagnosis.user # user.id /\ user.role = "user"

\* diagnosis.user.toString() !== req.user.id && req.user.role !== 'admin'
notOwner(diagnosis, user) == diagnosis.user # user.id /\ user.role # "admin"

\* !rating || rating < 1 || rating > 5
invalidRating(rating) == rating = 0 \/ rating < 1 \/ rating > 5

\* the request as the handlers see it
storeRequest(op, user, id, rating, comment) ==
  [op |-> op, user |-> user, id |-> id, rating |-> rating, comment |-> comment]

\* createDiagnosis, from Diagnosis.create on: a record of the requester
CreateDiagnosis ==
  /\ Len(store.records) < MaxRecords
  /\ \E user \in Requesters :
       store' = [records |-> Append(store.records,
                                    [user |-> user.id, feedback |-> noFeedback]),
                 request |-> storeRequest("createDiagnosis", user, 0, 0, ""),
                 status |-> 201, data |-> <<Len(store.records) + 1>>]
  /\ unchangedByStore

\* Diagnosis.find({ user: req.user.id })
GetDiagnoses ==
  /\ \E user \in Requesters :
       store' = [store EXCEPT
                   !.request = storeRequest("getDiagnoses", user, 0, 0, ""),
                   !.status = 200,
                   !.data = SelectSeq([i \in 1..Len(store.records) |-> i],
                                      LAMBDA i : store.records[i].user = user.id)]
  /\ unchangedByStore

GetDiagnosis ==
  /\ \E user \in Requesters, id \in 1..(MaxRecords + 1) :
       store' = [store EXCEPT
                   !.request = storeRequest("getDiagnosis", user, id, 0, ""),
                   !.status = IF id > Len(store.records) THEN 404
                              ELSE IF notOwner(store.records[id], user) THEN 401
                              ELSE 200,
                   !.data = IF id <= Len(store.records) /\ ~notOwner(store.records[id], user)
                            THEN <<id>> ELSE <<>>]
  /\ unchangedByStore

AddFeedback ==
  /\ \E user \in Requesters, id \in 1..(MaxRecords + 1), rating \in Ratings,
        comment \in {"", "thanks"} :
       LET req == storeRequest("addFeedback", user, id, rating, comment)
       IN  store' =
             IF invalidRating(rating)
             THEN [store EXCEPT !.request = req, !.status = 400, !.data = <<>>]
             ELSE IF id > Len(store.records)
             THEN [store EXCEPT !.request = req, !.status = 404, !.data = <<>>]
             ELSE IF notOwner(store.records[id], user)
             THEN [store EXCEPT !.request = req, !.status = 401, !.data = <<>>]
             ELSE [store EXCEPT
                     !.records[id].feedback = [rating |-> rating, comment |-> comment],
                     !.request = req, !.status = 200, !.data = <<id>>]
  /\ unchangedByStore

StoreNext ==
  \/ CreateDiagnosis
  \/ GetDiagnoses
  \/ GetDiagnosis
  \/ AddFeedback

StoreSpec == StoreInit /\ [][StoreNext]_vars

(***************************************************************************)
(* Service worker.  worker.names is the set of the caches that exist,      *)
(* worker.stored the URLs each of them holds a response for, worker.served *)
(* the last request answered and where the answer came from;               *)
(* worker.deleted records the caches that activate deleted.                *)
(***************************************************************************)
CACHE_NAME == "vetai-analyzer-cache-v1"

\* a cache left by an earlier version of the worker
OLD_CACHE == "vetai-analyzer-cache-v0"

CacheNames == {CACHE_NAME, OLD_CACHE}

strApi == <<"/","a","p","i","/">>

apiAnalyze == <<"/","a","p","i","/","a","n","a","l","y","z","e">>

apiDiagnosis == <<"/","a","p","i","/","d","i","a","g","n","o","s","i","s">>

logo == <<"/","l","o","g","o",".","p","n","g">>

favicon == <<"/","f","a","v","i","c","o","n",".","i","c","o">>

urlsToCache ==
  { <<"/">>,
    <<"/","i","n","d","e","x",".","h","t","m","l">>,
    <<"/","a","s","s","e","t","s","/","i","n","d","e","x",".","c","s","s">>,
    <<"/","a","s","s","e","t","s","/","i","n","d","e","x",".","j","s">> }

\* the URLs of the requests the pages make
Urls == urlsToCache \cup {logo, favicon, apiAnalyze, apiDiagnosis}

\* what an earlier version may have left in its cache
OldContents == {{}, {logo}, {logo, apiDiagnosis}}

unchangedByWorker ==
  UNCHANGED <<flow, request, pc, calls, parses, aiResponse, aiAnalysis,
              possibleConditions, recommendations, diagnosticTests, longTermManagement,
              result, response, frame, finder, home, app, store>>

\* the script is registered; a cache of an earlier version may exist
WorkerInit ==
  /\ serverIdle
  /\ home = noHome
  /\ app = noApp
  /\ store = noStore
  /\ \E old \in BOOLEAN, contents \in OldContents :
       worker = [noWorker EXCEPT
                   !.names = IF old THEN {OLD_CACHE} ELSE {},
                   !.stored = [name \in CacheNames |->
                                 IF old /\ name = OLD_CACHE THEN contents ELSE {}]]

\* a variant of the test before cache.put that stores every response
cacheAll(url) == TRUE

\* !event.request.url.includes('/api/')
cacheable(url) == ~includes(url, strApi)

\* caches.match(event.request): some cache holds a response for the URL
matches(url) == \E name \in worker.names : url \in worker.stored[name]

\* the install listener: the cache is opened and filled
Install ==
  /\ worker.pc = "parsed"
  /\ worker' = [worker EXCEPT !.pc = "installed",
                              !.names = @ \cup {CACHE_NAME},
                              !.stored[CACHE_NAME] = @ \cup urlsToCache]
  /\ unchangedByWorker

\* the activate listener: every cache not in the whitelist is deleted
Activate ==
  /\ worker.pc = "installed"
  /\ LET cacheWhitelist == {CACHE_NAME}
     IN  worker' = [worker EXCEPT
                      !.pc = "active",
                      !.names = @ \cap cacheWhitelist,
                      !.deleted = worker.names \ cacheWhitelist,
                      !.stored = [name \in CacheNames |->
                                    IF name \in cacheWhitelist THEN @[name] ELSE {}]]
  /\ unchangedByWorker

\* the fetch listener, for a GET request: the cached response, or the response of
\* the network, stored when it is a basic 200 response to a URL without '/api/', or
\* the offline message when the fetch is rejected
Fetch ==
  /\ worker.pc = "active"
  /\ \E url \in Urls, outcome \in {"basic200", "other", "rejected"} :
       worker' =
         IF matches(url)
         THEN [worker EXCEPT !.served = [url |-> url, from |-> "cache"]]
         ELSE IF outcome = "rejected"
         THEN [worker EXCEPT
                 !.served = [url |-> url,
                             from |-> IF includes(url, strApi) THEN "offline" ELSE "none"]]
         ELSE IF outcome = "other"
         THEN [worker EXCEPT !.served = [url |-> url, from |-> "network"]]
         ELSE [worker EXCEPT
                 !.served = [url |-> url, from |-> "network"],
                 !.names = @ \cup {CACHE_NAME},
                 !.stored[CACHE_NAME] = IF cacheable(url) THEN @ \cup {url} ELSE @]
  /\ unchangedByWorker

WorkerNext ==
  \/ Install
  \/ Activate
  \/ Fetch

WorkerSpec == WorkerInit /\ [][WorkerNext]_vars

(***************************************************************************)
(* Properties.                                                             *)
(***************************************************************************)
\* the lines of the response text
responseLines == split(aiResponse)

\* the text has only white space
isBlank(s) == \A i \in 1..Len(s) : s[i] \in Space

\* C1: in the generic flow a non-empty response text gives at least one condition,
\* and exactly the 'Unspecified Condition' sentinel when neither the strict rules nor
\* the bare-substring pass extract anything; in every copy of extractConditions.
ConditionsNeverEmpty ==
  (pc \in {"analyzed", "diagnosed"} /\ aiResponse # <<>>) =>
    /\ Len(possibleConditions) >= 1
    /\ (strictConditions(aiResponse) = <<>> /\ aggressivePass(responseLines, 1) = <<>>) =>
         /\ Len(possibleConditions) = 1
         /\ possibleConditions[1].condition = strUnspecifiedCondition
         /\ possibleConditions[1].probability = strMedium
         /\ possibleConditions[1].description # <<>>

\* C2: in the generic flow every free-text field is a non-empty string, also when
\* its heading is followed by nothing, by white space or by a line break.
TextFieldsNeverEmpty ==
  /\ pc = "analyzed" =>
       recommendations # <<>> /\ diagnosticTests # <<>> /\ longTermManagement # <<>>
  /\ pc = "diagnosed" => recommendations # <<>>

\* the section keywords of the three free-text extractors
SectionKeywords ==
  {strRecommendations, strAdviceForPetOwner, strAdviceToPetOwner,
   strDiagnosticTests, strPotentialTests, strRecommendedTests,
   strLongTermManagementHyphen, strLongTermManagementSpace, strOngoingCare,
   strManagementConsiderations}

\* C3: in the generic flow an empty text and a text with none of the section
\* keywords give exactly the three fixed fallback sentences.
KeywordFreeGivesFallback ==
  (pc = "analyzed" /\ \A k \in SectionKeywords : ~includes(toLowerCase(aiResponse), k)) =>
    /\ recommendations = strNoRecommendations
    /\ diagnosticTests = strNoDiagnosticTests
    /\ longTermManagement = strNoLongTermManagement

\* C4: in the clinical flow every free-text field of the record of parseResponse is
\* a non-empty string.
ClinicalFieldsNeverEmpty ==
  pc = "parsed" =>
    /\ result.assessment # <<>>
    /\ result.diagnostics # <<>>
    /\ result.homeCare # <<>>
    /\ result.vetCareIndicators # <<>>

\* a line of the form | name | TAG |: three '|', the first and the last character of
\* the line, a name cell of at least one character and a tag cell of one word
pipesOf(line) == {i \in 1..Len(line) : line[i] = "|"}
middlePipe(line) == CHOOSE i \in pipesOf(line) : i # 1 /\ i # Len(line)
nameCell(line) == SubSeq(line, 2, middlePipe(line) - 1)
tagCell(line) == SubSeq(line, middlePipe(line) + 1, Len(line) - 1)
isTableRow(line) ==
  /\ Cardinality(pipesOf(line)) = 3
  /\ line[1] = "|"
  /\ line[Len(line)] = "|"
  /\ nameCell(line) # <<>>
  /\ trim(tagCell(line)) # <<>>
  /\ \A i \in 1..Len(trim(tagCell(line))) : trim(tagCell(line))[i] \in WordChar

\* the name cell without asterisks, trimmed
rowName(line) == trim(SelectSeq(nameCell(line), LAMBDA c : c # "*"))

\* line i lies inside the conditions section: after the first conditions heading,
\* with no end-of-section line from there up to and including line i
insideConditionsSection(lines, i) ==
  LET heads == {h \in 1..Len(lines) : isConditionsHeading(lines[h])}
  IN  /\ heads # {}
      /\ LET first == CHOOSE h \in heads : \A g \in heads : h <= g
         IN  /\ first < i
             /\ ~isConditionsHeading(lines[i])
             /\ \A k \in (first + 1)..i :
                  isConditionsHeading(lines[k]) \/ ~isConditionsEnd(lines[k])

\* the table rows the claim is about
tableRows ==
  {i \in 1..Len(responseLines) :
     /\ isTableRow(responseLines[i])
     /\ ~isTableHeader(responseLines[i])
     /\ insideConditionsSection(responseLines, i)}

\* C5: in the generic flow every table row '| name | TAG |' inside the conditions
\* section that is no header or separator gives exactly one condition, with the name
\* (asterisks stripped, trimmed) and the tag of the row; no other condition comes
\* from that line, by a later rule or by the bare-substring pass.
TableRowGivesOneCondition ==
  pc = "analyzed" =>
    \A i \in tableRows :
      \E j \in 1..Len(possibleConditions) :
        /\ possibleConditions[j].line = i
        /\ possibleConditions[j].condition = rowName(responseLines[i])
        /\ possibleConditions[j].probability = trim(tagCell(responseLines[i]))
        /\ \A k \in 1..Len(possibleConditions) :
             possibleConditions[k].line = i => k = j

\* C5 witness: the row '| Otitis Externa | High |' has given its condition
TableRowWitness ==
  /\ pc = "analyzed"
  /\ \E i \in tableRows :
       \E j \in 1..Len(possibleConditions) :
         /\ possibleConditions[j].line = i
         /\ possibleConditions[j].condition = <<"O","t","i","t","i","s"," ","E","x","t","e","r","n","a">>
         /\ possibleConditions[j].probability = strHigh

\* the shape of the description backfill: a conditions heading, '1. name (TAG)', a
\* description heading, 'name: text', a recommendations heading, a recommendation
backfillName(lines) == SubSeq(lines[2], 4, indexOf(lines[2], <<"(">>) - 2)
backfillTag(lines) == SubSeq(lines[2], indexOf(lines[2], <<"(">>) + 1, Len(lines[2]) - 1)
backfillText(lines) == trim(from(lines[4], indexOf(lines[4], <<":">>) + 1))
isBackfillShape(lines) ==
  /\ Len(lines) = 6
  /\ includes(toLowerCase(lines[1]), strPossibleConditions)
  /\ startsWith(lines[2], <<"1", ".", " ">>)
  /\ indexOf(lines[2], <<"(">>) > 5
  /\ lines[2][Len(lines[2])] = ")"
  /\ \A i \in 1..Len(backfillName(lines)) : backfillName(lines)[i] \in Letter
  /\ \A i \in 1..Len(backfillTag(lines)) : backfillTag(lines)[i] \in Letter
  /\ backfillTag(lines) # <<>>
  /\ includes(toLowerCase(lines[3]), strDescription)
  /\ startsWith(lines[4], backfillName(lines) \o <<":">>)
  /\ backfillText(lines) # <<>>
  /\ includes(toLowerCase(lines[5]), strRecommendations)
  /\ ~isBlank(lines[6])

\* C7: for a text of the backfill shape every copy of the generic parser returns
\* exactly one condition, with the name and the tag of the numbered line and a
\* description that starts with the text after the first colon, and the
\* recommendations contain the recommendation line.
DescriptionBackfill ==
  (pc \in {"analyzed", "diagnosed"} /\ isBackfillShape(responseLines)) =>
    /\ Len(possibleConditions) = 1
    /\ possibleConditions[1].condition = backfillName(responseLines)
    /\ possibleConditions[1].probability = backfillTag(responseLines)
    /\ startsWith(possibleConditions[1].description, backfillText(responseLines))
    /\ includes(recommendations, trim(responseLines[6]))

\* the severity vocabulary of the clinical flow as the prompt spells it
ClinicalSeverities ==
  { <<"M","i","l","d">>, <<"M","o","d","e","r","a","t","e">>,
    <<"S","e","r","i","o","u","s">>, <<"E","m","e","r","g","e","n","c","y">> }

\* C8: in the clinical flow the severity of every condition is one of Mild, Moderate,
\* Serious, Emergency or 'Not specified', and so never High, Medium or Low.
SeverityInVocabulary ==
  pc = "parsed" =>
    \A j \in 1..Len(result.conditions) :
      result.conditions[j].severity \in ClinicalSeverities \cup {strNotSpecified}

\* C9: in the generic flow the probability of every condition is High, Medium or Low.
ProbabilityInVocabulary ==
  pc \in {"analyzed", "diagnosed"} =>
    \A j \in 1..Len(possibleConditions) :
      possibleConditions[j].probability \in {strHigh, strMedium, strLow}

\* the name without leading bullet and number markers, trimmed
RECURSIVE withoutMarkers(_)
withoutMarkers(name) ==
  IF name # <<>> /\ Head(name) \in (BulletChar \cup Digit \cup Space \cup {"."})
  THEN withoutMarkers(Tail(name))
  ELSE trim(name)

\* C10: in both flows the name of every condition is non-empty after trimming and
\* after removal of leading bullet and number markers.
ConditionNamesNonEmpty ==
  /\ pc \in {"analyzed", "diagnosed"} =>
       \A j \in 1..Len(possibleConditions) :
         withoutMarkers(possibleConditions[j].condition) # <<>>
  /\ pc = "parsed" =>
       \A j \in 1..Len(result.conditions) :
         withoutMarkers(result.conditions[j].name) # <<>>

\* C11: the raw-response field of the result (rawResponse of the form, aiAnalysis of
\* the servers) is character for character the text the generative API returned.
RawResponseIsUpstreamText ==
  /\ pc = "parsed" => result.rawResponse = aiResponse
  /\ pc \in {"analyzed", "diagnosed"} => aiAnalysis = aiResponse

\* the positions of a parser from which it takes a step, and its return
parserPositions ==
  {"extractConditions", "firstPass", "secondPass", "conditionsLoop", "lookAhead", "fill",
   "fillLoop", "describe", "checkConditions", "aggressive", "return",
   "parseResponse", "map", "assign", "returned"}

\* what is left to do at a position: the phases that follow, the iterations left of
\* the loop of the phase, and the steps left inside the current iteration
remaining(position, f, conditions) ==
  LET linesLeft == Len(f.lines) + 2 - f.i
      conditionsLeft == Len(conditions) + 2 - f.j
  IN  CASE position = "idle" -> <<10, 0, 0>>
        [] position \in {"extractConditions", "parseResponse"} -> <<9, 0, 0>>
        [] position = "firstPass" -> <<8, linesLeft, 0>>
        [] position = "secondPass" ->
             <<7, linesLeft, Len(f.lines) + Len(conditions) + 5>>
        [] position = "conditionsLoop" -> <<7, linesLeft, Len(f.lines) + 2 + conditionsLeft>>
        [] position = "lookAhead" -> <<7, linesLeft, Len(f.lines) + 2 - f.k>>
        [] position = "fill" -> <<6, 0, 0>>
        [] position = "fillLoop" -> <<5, conditionsLeft, Len(f.lines) + 3>>
        [] position = "describe" -> <<5, conditionsLeft, linesLeft>>
        [] position = "checkConditions" -> <<4, 0, 0>>
        [] position = "aggressive" -> <<3, linesLeft, 0>>
        [] position = "return" -> <<2, 0, 0>>
        [] position = "map" -> <<8, Len(f.lines) + 2 - f.j, 0>>
        [] position = "assign" -> <<7, 0, 0>>
        [] OTHER -> <<1, 0, 0>>

\* the lexicographic order of triples of natural numbers
less(a, b) ==
  \/ a[1] < b[1]
  \/ a[1] = b[1] /\ a[2] < b[2]
  \/ a[1] = b[1] /\ a[2] = b[2] /\ a[3] < b[3]

\* C12: for every input text both parsers terminate and return their record without
\* raising an exception: every step leads to a position of the parser (never to a
\* TypeError), every loop index stays within its array plus one, and every step
\* lessens what is left to do, so the return is reached after finitely many steps.
ParsersReturn ==
  [][/\ pc' \in parserPositions
     /\ frame'.i <= Len(frame'.lines) + 1
     /\ frame'.k <= Len(frame'.lines) + 1
     /\ frame'.j <= Len(possibleConditions') + Len(frame'.lines) + 1
     /\ less(remaining(pc', frame', possibleConditions'),
             remaining(pc, frame, possibleConditions))]_vars

\* C12 witness: extractConditions has returned after its look-ahead loop appended
\* the line before the one it stopped at to the description of a condition
ParsersReturnWitness ==
  /\ pc = "returned"
  /\ frame.k > 2
  /\ frame.k <= Len(frame.lines)
  /\ \E n \in 1..Len(possibleConditions) :
       LET line == frame.lines[frame.k - 2]
       IN  possibleConditions[n].description =
             trim(from(line, indexOf(line, <<":">>) + 1)) \o <<" ">>
               \o trim(frame.lines[frame.k - 1])

\* a field of a request that is missing or the empty string
missingOrEmpty(f) == ~f.present \/ Len(f.value) = 0

\* C13: a request whose species or symptom text is missing or empty is rejected with
\* a validation error before any call of the generative API: such a request is only
\* ever waiting or rejected (a body that is no JSON ends in the server's error
\* answer), its rejection carries a message and no success, and no generateContent
\* call is counted for it at any time.
MissingFieldRejectedBeforeCall ==
  missingOrEmpty(request.petType) \/ missingOrEmpty(request.symptoms) =>
    /\ calls = 0
    /\ parses = 0
    /\ pc \in (IF request.parsable THEN {"start", "rejected"} ELSE {"start", "failed"})
    /\ pc = "rejected" =>
         /\ ~response.success
         /\ response.message # ""
         /\ response.status = (IF flow = "form" THEN 0 ELSE 400)

\* C13 witness: a request with a species and an empty symptom text has been rejected
MissingFieldWitness ==
  /\ pc = "rejected"
  /\ request.petType = field(strDog)
  /\ request.symptoms = field(<<>>)
  /\ calls = 0

\* C14: when the generative API call fails or returns an empty text the request ends
\* in a failure (no success, an error message) and no analysis is produced: no
\* successful outcome exists for an empty upstream text.
EmptyUpstreamTextFails ==
  /\ pc = "failed" => ~response.success /\ response.message # ""
  /\ pc \in {"analyzed", "diagnosed", "parsed"} => aiResponse # <<>>

\* C15: for a request that passes validation the handler issues exactly one call of
\* the generative API and the parsers run once, only after the call has returned its
\* text: at most one call and one parse are ever counted, a request that is past the
\* call has exactly one, the parsers have not run before the text arrived, and they
\* have run exactly once when the handler answers with a result.
OneCallOneParse ==
  /\ calls <= 1
  /\ parses <= 1
  /\ pc \in {"calling", "received", "analyzed", "diagnosed", "parsed"} => calls = 1
  /\ pc \in {"start", "calling", "received"} => parses = 0
  /\ parses = 1 => calls = 1
  /\ pc \in {"analyzed", "diagnosed", "parsed"} => parses = 1

\* C15 witness: POST /api/analyze has answered a valid request with a result
OneCallOneParseWitness ==
  /\ pc = "analyzed"
  /\ flow = "analyze"
  /\ validation(flow, request) = ""
  /\ calls = 1
  /\ parses = 1
  /\ response.success

\* a distance of so many metres rounded to one decimal of a km, in tenths of a km
roundedToOneDecimal(metres) == (metres + 50) \div 100

\* C16: whenever the clinic list is set it is ascending by distance from the user:
\* of two adjacent clinics the earlier one's distance, rounded to one decimal, is at
\* most the later one's, and the distance listed is that rounded distance.
ClinicsAscendingByDistance ==
  finder.pc = "listed" =>
    /\ \A n \in 1..(Len(finder.clinics) - 1) :
         roundedToOneDecimal(finder.clinics[n].position)
           <= roundedToOneDecimal(finder.clinics[n + 1].position)
    /\ \A n \in 1..Len(finder.clinics) :
         roundedToOneDecimal(finder.clinics[n].position)
           = (IF finder.component = "VetMap"
              THEN parseFloat(firstWord(finder.clinics[n].distance))
              ELSE finder.clinics[n].distance)

\* C16 witness: a response that lists the farther clinic first has been turned into
\* a list of two clinics
ClinicsAscendingWitness ==
  /\ finder.pc = "listed"
  /\ Len(finder.data) = 2
  /\ Len(finder.clinics) = 2
  /\ roundedToOneDecimal(finder.data[1].metres) > roundedToOneDecimal(finder.data[2].metres)

\* C17: on the find-a-vet page, whenever the veterinary query gives no clinic that
\* can be listed (also when its only veterinary results are ways or relations,
\* which have no coordinates), the alternative query for pet shops and animal
\* boarding is sent and the list shown is made of its results.
AlternativeQueryWhenNoClinic ==
  /\ finder.component = "VetMap"
  /\ finder.pc = "listed"
  /\ \A n \in 1..Len(finder.veterinary) :
       ~(/\ finder.veterinary[n].type = "node"
         /\ finder.veterinary[n].lat
         /\ finder.veterinary[n].amenity = "veterinary")
  => /\ finder.queries = <<veterinaryQuery, alternativeQuery>>
     /\ \A n \in 1..Len(finder.clinics) :
          \E element \in AlternativeElements : finder.clinics[n].id = toDecimal(element.id)

\* the three free-text sections of the analysis: the phrases that make a line a
\* heading line of the section, the text returned for it, and what the pass over the
\* lines collected for it
FreeTextSections ==
  { [keywords |-> {strRecommendations, strAdviceForPetOwner, strAdviceToPetOwner},
     content |-> recommendations,
     collected |-> recommendationsLoop(responseLines, 1, FALSE, <<>>)],
    [keywords |-> {strDiagnosticTests, strPotentialTests, strRecommendedTests},
     content |-> diagnosticTests,
     collected |-> diagnosticTestsLoop(responseLines, 1, FALSE, <<>>)],
    [keywords |-> {strLongTermManagementHyphen, strLongTermManagementSpace, strOngoingCare,
                   strManagementConsiderations},
     content |-> longTermManagement,
     collected |-> longTermLoop(responseLines, 1, FALSE, <<>>)] }

\* the line holds one of the phrases
hasKeyword(line, keywords) == \E k \in keywords : includes(toLowerCase(line), k)

\* the trimmed lines of the response that are heading lines of a section
headingLines(keywords) ==
  {trim(responseLines[n]) : n \in {m \in 1..Len(responseLines) :
                                     hasKeyword(responseLines[m], keywords)}}

\* a markdown heading: '#'s, white space, a title
afterHashes(line) ==
  LET others == {n \in 1..Len(line) : line[n] # "#"}
  IN  IF others = {} THEN Len(line) + 1 ELSE CHOOSE n \in others : \A m \in others : n <= m
afterHashesAndSpace(line) ==
  LET others == {n \in afterHashes(line)..Len(line) : line[n] \notin Space}
  IN  IF others = {} THEN Len(line) + 1 ELSE CHOOSE n \in others : \A m \in others : n <= m
hasHashes(line) == afterHashes(line) > 1 /\ afterHashesAndSpace(line) > afterHashes(line)

\* the title of a heading line between '**' and '**'
inBold(line) ==
  <<"*", "*">> \o SubSeq(line, IF hasHashes(line) THEN afterHashesAndSpace(line) ELSE 1,
                         Len(line)) \o <<"*", "*">>

\* the lines of a text as a set
linesOf(text) == {split(text)[n] : n \in 1..Len(split(text))}

otherKeywords(s) == SectionKeywords \ s.keywords

\* the index of the first heading line of the section
firstHeading(s) ==
  CHOOSE n \in 1..Len(responseLines) :
    /\ hasKeyword(responseLines[n], s.keywords)
    /\ \A m \in 1..(n - 1) : ~hasKeyword(responseLines[m], s.keywords)

\* the least element of a set of indices, one past the last line when there is none
firstOf(indices) ==
  IF indices = {} THEN Len(responseLines) + 1
  ELSE CHOOSE n \in indices : \A m \in indices : n <= m

\* a line without its list marker and the white space around it
afterMarker(line) ==
  LET t == trim(line)
  IN  IF Len(t) > 0 /\ t[1] \in {"-", "*", "U+2022"} THEN trim(SubSeq(t, 2, Len(t))) ELSE t

\* the lines of a sequence that are not blank, without their markers
contentOf(lines) ==
  LET kept == SelectSeq(lines, LAMBDA line : ~isBlank(line))
  IN  [n \in 1..Len(kept) |-> afterMarker(kept[n])]

\* xs can be had from ys by leaving elements out
RECURSIVE isSubsequence(_, _)
isSubsequence(xs, ys) ==
  IF xs = <<>> THEN TRUE
  ELSE IF ys = <<>> THEN FALSE
  ELSE IF Head(xs) = Head(ys) THEN isSubsequence(Tail(xs), Tail(ys))
  ELSE isSubsequence(xs, Tail(ys))

\* a line that looks like a heading: a markdown heading, or a label that ends in ':'
looksLikeHeading(line) ==
  LET t == trim(line) IN hasHashes(t) \/ (Len(t) > 0 /\ t[Len(t)] = ":")

\* C19: while a section is active every non-blank line up to its end is appended to
\* its content, in order, a content line that merely holds the section's own keyword
\* included: the lines that follow the first heading line of the section, up to the
\* next line that is a markdown heading or holds the heading phrase of another
\* section, are found in the returned text in their order (heading-like lines aside).
ContentLinesAppended ==
  pc = "analyzed" =>
    \A s \in FreeTextSections :
      s.collected # <<>> =>
        LET a == firstHeading(s)
            e == firstOf({n \in (a + 1)..Len(responseLines) :
                            \/ hasHashes(trim(responseLines[n]))
                            \/ hasKeyword(responseLines[n], otherKeywords(s))})
            expected == SelectSeq(SubSeq(responseLines, a + 1, e - 1),
                                  LAMBDA line : ~looksLikeHeading(line))
        IN  isSubsequence(contentOf(expected), contentOf(split(s.content)))

\* C20: a section ends at the first later line that holds the heading phrase of
\* another section, markdown heading or not: the text returned for a section holds
\* neither that line nor a line after it (lines that also stand inside the section
\* aside).
SectionEndsAtNextHeading ==
  pc = "analyzed" =>
    \A s \in FreeTextSections :
      s.collected # <<>> =>
        LET a == firstHeading(s)
            e == firstOf({n \in (a + 1)..Len(responseLines) :
                            /\ hasKeyword(responseLines[n], otherKeywords(s))
                            /\ ~hasKeyword(responseLines[n], s.keywords)})
            inside == contentOf(SubSeq(responseLines, a + 1, e - 1))
            after == contentOf(SubSeq(responseLines, e, Len(responseLines)))
            returned == contentOf(split(s.content))
        IN  \A n \in 1..Len(after) :
              (\A m \in 1..Len(inside) : inside[m] # after[n]) =>
                \A m \in 1..Len(returned) : returned[m] # after[n]

\* the lines inside the conditions section that a strict rule matches
strictLinesOf(lines) ==
  {i \in 1..Len(lines) :
     /\ insideConditionsSection(lines, i)
     /\ trim(lines[i]) # <<>>
     /\ lineConditions(lines[i], i) # <<>>}

strictLines == strictLinesOf(responseLines)

\* C21: the strict rules give conditions only for the lines between the first
\* conditions heading and the first end-of-section line after it: when some line
\* there matches a rule, the list holds one condition for each such line, in the
\* order of the lines, and none for any other line, also when a second conditions
\* heading follows the end of the section.
StrictConditionsFromSection ==
  pc = "analyzed" =>
    LET strict == strictLinesOf(responseLines)
        found  == [j \in 1..Len(possibleConditions) |-> possibleConditions[j].line]
    IN  strict # {} =>
          /\ Len(found) = Cardinality(strict)
          /\ \A j \in 1..Len(found) : found[j] \in strict
          /\ \A j \in 1..(Len(found) - 1) : found[j] < found[j + 1]

\* C21 witness: a condition has come from the section, and a line that a strict rule
\* matches stands after a second conditions heading that follows the section's end
StrictConditionsWitness ==
  /\ pc = "analyzed"
  /\ strictLines # {}
  /\ \E h, i \in 1..Len(responseLines) :
       /\ h < i
       /\ isConditionsHeading(responseLines[h])
       /\ ~insideConditionsSection(responseLines, h + 1)
       /\ lineConditions(responseLines[i], i) # <<>>
       /\ \A j \in 1..Len(possibleConditions) : possibleConditions[j].line < h

\* a table header or separator: a '|' together with the word 'Condition' or a run of
\* dashes
isHeaderOrSeparator(line) ==
  /\ \E i \in 1..Len(line) : line[i] = "|"
  /\ \/ \E i \in 1..(Len(line) - 8) : SubSeq(line, i, i + 8) = strCondition
     \/ \E i \in 1..(Len(line) - 2) : SubSeq(line, i, i + 2) = <<"-", "-", "-">>

\* C22: a table header or separator line never produces a condition, by the strict
\* rules or by the bare-substring pass.
HeaderNeverGivesCondition ==
  pc = "analyzed" =>
    \A j \in 1..Len(possibleConditions) :
      possibleConditions[j].line # 0 =>
        ~isHeaderOrSeparator(responseLines[possibleConditions[j].line])

\* the vocabulary word the bare-substring pass matches in a line: the first of high,
\* medium, low that the line holds in any letter case
matchedWord(line) ==
  IF includes(toLowerCase(line), strHighLower) THEN strHighLower
  ELSE IF includes(toLowerCase(line), strMediumLower) THEN strMediumLower
  ELSE strLowLower

\* C23: in the bare-substring pass the name is the text before the first occurrence
\* of the matched word in any letter case, cleaned of a leading bullet or number and
\* of a trailing dash or colon; the name does not contain the word and the
\* probability is the canonical spelling of the word.
NameIsTextBeforeWord ==
  (pc = "analyzed" /\ strictConditions(aiResponse) = <<>>) =>
    \A j \in 1..Len(possibleConditions) :
      possibleConditions[j].line # 0 =>
        LET line == trim(responseLines[possibleConditions[j].line])
            word == matchedWord(line)
            at   == indexOf(toLowerCase(line), word)
        IN  /\ possibleConditions[j].condition =
                 cleanConditionName(trim(SubSeq(line, 1, at - 1)))
            /\ ~includes(toLowerCase(possibleConditions[j].condition), word)
            /\ possibleConditions[j].probability \in {strHigh, strMedium, strLow}
            /\ toLowerCase(possibleConditions[j].probability) = word

\* the strict conditions before the description backfill
undescribed == secondPass(responseLines, 1, FALSE, firstPass(responseLines, 1, FALSE, <<>>))

\* the simple description fallback runs: conditions were found and the dedicated pass
\* described none of them
fallbackRuns ==
  /\ Len(undescribed) > 0
  /\ \A j \in 1..Len(undescribed) : undescribed[j].description = <<>>

\* the line holds one of the probability words High, Medium, Low
hasProbabilityWord(line) ==
  includes(line, strHigh) \/ includes(line, strMedium) \/ includes(line, strLow)

\* the index of the first non-blank line after line i; 0 when there is none
nextNonBlank(lines, i) ==
  LET later == {k \in (i + 1)..Len(lines) : trim(lines[k]) # <<>>}
  IN  IF later = {} THEN 0 ELSE CHOOSE k \in later : \A m \in later : k <= m

\* C24: in the simple description fallback the description is the next non-blank
\* line after the first occurrence of the condition name, and it is never a line
\* that holds a probability word, such as the list line of the next condition.
FallbackDescriptionIsNoConditionLine ==
  (pc = "analyzed" /\ fallbackRuns) =>
    \A j \in 1..Len(possibleConditions) :
      LET name  == possibleConditions[j].condition
          first == CHOOSE i \in 1..Len(responseLines) :
                     /\ includes(responseLines[i], name)
                     /\ \A k \in 1..(i - 1) : ~includes(responseLines[k], name)
          next  == nextNonBlank(responseLines, first)
      IN  /\ ~hasProbabilityWord(possibleConditions[j].description)
          /\ possibleConditions[j].description # strNoDetailedDescription =>
               /\ next # 0
               /\ possibleConditions[j].description = trim(responseLines[next])

\* line i comes after a description heading
afterDescriptionHeading(lines, i) ==
  \E h \in 1..(i - 1) : includes(toLowerCase(lines[h]), strDescription)

\* C25: in the dedicated description pass the appended lines stop before the line
\* that starts another condition's entry: no description includes the line that
\* begins the description of another extracted condition.
DescriptionStopsAtNextCondition ==
  (pc = "analyzed" /\ ~fallbackRuns) =>
    \A j, m \in 1..Len(possibleConditions) :
      \A i \in 1..Len(responseLines) :
        ( /\ j # m
          /\ possibleConditions[m].condition # <<>>
          /\ afterDescriptionHeading(responseLines, i)
          /\ namesCondition(responseLines[i], possibleConditions[m].condition)
          /\ ~namesCondition(responseLines[i], possibleConditions[j].condition) )
        => ~includes(possibleConditions[j].description, trim(responseLines[i]))

\* the Home page state after a call: not loading, and either a result or an error
homeSettled ==
  /\ ~home.isLoading
  /\ (home.analysisResult # "null") # (home.error # "null")

\* C26: whatever the requests end in, a call of handleAnalyzeSubmit issues at most
\* three requests, it finishes, and when it has finished isLoading is false and
\* exactly one of analysisResult and error is set.
AnalyzeCallSettles ==
  /\ [](home.requests <= maxRetries + 1)
  /\ [](home.pc = "done" => homeSettled)
  /\ (home.pc = "fetching") ~> (home.pc = "done")

\* C26 witness: a call that ended after three failed requests, the last one aborted
AnalyzeCallWitness ==
  /\ home.pc = "done"
  /\ home.requests = 3
  /\ home.outcomes[3] = "abort"
  /\ home.error = "Request timed out. Please check your connection and try again."

\* C27: while a valid submission of the diagnosis form is pending, its result or
\* error not yet set, loading is true, and no second submission is pending with it;
\* for a visitor (sample data) and for a logged-in user alike.
LoadingWhileSubmissionPending ==
  /\ (app.timers + app.awaiting > 0) => app.loading
  /\ app.timers + app.awaiting <= 1

\* C28: in NearbyVetsMap isLoading is true in every state in which a clinic query
\* is in flight; it is false only when none is.
LoadingWhileQueryInFlight ==
  (finder.component = "NearbyVetsMap" /\ finder.pc = "veterinary") => finder.isLoading

\* the request of a step is for a stored record
forStoredRecord(op) ==
  /\ store'.request.op = op
  /\ store'.request.id \in 1..Len(store.records)

\* the requester of a step owns the record asked for, or is an admin
ownerOrAdmin ==
  \/ store.records[store'.request.id].user = store'.request.user.id
  \/ store'.request.user.role = "admin"

\* getDiagnoses answers with the requester's records only
onlyOwnRecords ==
  store'.request.op = "getDiagnoses" =>
    \A k \in 1..Len(store'.data) :
      store.records[store'.data[k]].user = store'.request.user.id

ApiNeverCached ==
  /\ \A url \in worker.stored[CACHE_NAME] : ~includes(url, strApi)
  /\ includes(worker.served.url, strApi) => worker.served.from # "cache"
  /\ worker.pc = "active" => worker.names \subseteq {CACHE_NAME}

\* C30 witness: activate deleted an older cache that held an API response, a page
\* asset was fetched and stored, and an API request was answered by the network
ApiNeverCachedWitness ==
  /\ worker.pc = "active"
  /\ OLD_CACHE \in worker.deleted
  /\ logo \in worker.stored[CACHE_NAME]
  /\ worker.served = [url |-> apiDiagnosis, from |-> "network"]

============================================================================
